------------------------- MODULE ScriptEngine_proofs -------------------------
(***************************************************************************)
(* Theorems about ScriptEngine, for any scripts and functions, any number  *)
(* of edits, any depth of calls and up to 125 arguments of a call, the     *)
(* most that ExecGlobalFunction's s8 counts beside the two names.          *)
(***************************************************************************)
EXTENDS ScriptEngine, FiniteSetTheorems, SequenceTheorems, WellFoundedInduction, TLAPS

-----------------------------------------------------------------------------
(* The modules.  What the engine's steps do to them. *)

ModulesStep ==
    \/ UNCHANGED files_and_tables
    \/ Register
    \/ \E m \in Scripts :
          \/ \E kind \in {"table", "value", "broken"}, funs \in SUBSET Functions :
                EditFile(m, kind, funs)
          \/ Require(m) /\ UNCHANGED <<files, held, failed>>
          \/ Hold(m)
          \/ ReloadSucceeds(m)
          \/ ReloadFails(m)

LEMMA RaiseLeavesModules == Raise => UNCHANGED files_and_tables
  BY DEF Raise

LEMMA StepsOfModules == [Next]_vars => ModulesStep
  <1> SUFFICES ASSUME [Next]_vars PROVE ModulesStep
    OBVIOUS
  <1>1. CASE UNCHANGED vars
    BY <1>1 DEF vars, ModulesStep
  <1>2. CASE \E ok \in BOOLEAN : Initialize(ok)
    BY <1>2 DEF Initialize, ModulesStep
  <1>3. CASE RegModuleFunc
    BY <1>3 DEF RegModuleFunc, ModulesStep
  <1>4. CASE CallScriptFunc \/ WriteArg \/ EndCallback
    BY <1>4 DEF CallScriptFunc, WriteArg, EndCallback, ModulesStep
  <1>5. CASE \E m \in Scripts : ReloadScript(m)
    BY <1>5 DEF ReloadScript, FindsNoLink, ModulesStep
  <1>6. CASE \E m \in Scripts : LuaHolds(m)
    BY <1>6 DEF LuaHolds, ModulesStep
  <1>7. CASE \E m \in Scripts, f \in Functions : EndOutput(m, f)
    <2>1. PICK m \in Scripts, f \in Functions : EndOutput(m, f)
      BY <1>7
    <2>2. CASE FindsNoLink
      BY <2>2 DEF FindsNoLink, ModulesStep
    <2>3. CASE Call(m, f)
      <3>1. UNCHANGED <<files, held, failed>>
            /\ (UNCHANGED <<loaded, latest>> \/ Require(m))
        BY <2>3 DEF Call
      <3> QED
        BY <3>1 DEF ModulesStep, files_and_tables, tables
    <2> QED
      BY <2>1, <2>2, <2>3 DEF EndOutput
  <1>8. CASE \E ret \in Returns : LuaReturns(ret)
    BY <1>8 DEF LuaReturns, ModulesStep
  <1>9. CASE LuaError \/ ReadStrRaises
    BY <1>9, RaiseLeavesModules DEF LuaError, ReadStrRaises, ModulesStep
  <1>10. CASE \E n \in 0..MaxArgs : LuaCall(n)
    BY <1>10 DEF LuaCall, ModulesStep
  <1>11. CASE \E index \in 0..(MostRead - 1) : Read(index)
    BY <1>11 DEF Read, ModulesStep
  <1>12. CASE ReadAborts \/ WriteOut \/ NativeReturns
    BY <1>12 DEF ReadAborts, WriteOut, NativeReturns, ModulesStep
  <1>13. CASE \E m \in Scripts, kind \in {"table", "value", "broken"}, funs \in SUBSET Functions :
                 EditScript(m, kind, funs)
    BY <1>13 DEF EditScript, ModulesStep
  <1> QED
    BY <1>1, <1>2, <1>3, <1>4, <1>5, <1>6, <1>7, <1>8, <1>9, <1>10, <1>11, <1>12, <1>13 DEF Next

LEMMA DefinedFacts ==
    /\ Nothing \in Defined /\ \A f \in Functions : Nothing[f] = 0
    /\ \A d \in Defined, f \in Functions : d[f] \in 0..MaxEdits
  BY MaxEditsAssumption DEF Nothing, Defined

LEMMA RequiredFacts ==
    ASSUME ModulesTypeOK, NEW m \in Scripts
    PROVE  Required(m) \in [is : {"nil", "value", "table"}, funs : Defined]
  BY DefinedFacts DEF ModulesTypeOK, Required

LEMMA RequireTypes ==
    ASSUME ModulesTypeOK, NEW m \in Scripts, Require(m)
    PROVE  /\ loaded' \in [Scripts -> [is : {"nil", "value", "table"}, funs : Defined]]
           /\ latest' \in [Scripts -> Defined]
  BY RequiredFacts DEF ModulesTypeOK, Require

LEMMA ApartTypes ==
    ASSUME ModulesTypeOK, NEW m \in Scripts
    PROVE  Apart(m) \in [Scripts -> [is : {"none", "loaded", "own"}, funs : Defined]]
  BY DEF ModulesTypeOK, Apart

LEMMA ModulesTypes == ModulesTypeOK /\ ModulesStep => ModulesTypeOK'
  <1> SUFFICES ASSUME ModulesTypeOK, ModulesStep PROVE ModulesTypeOK'
    OBVIOUS
  <1>1. CASE UNCHANGED files_and_tables
    BY <1>1 DEF files_and_tables, files, tables, ModulesTypeOK
  <1>2. CASE Register
    BY <1>2 DEF Register, tables, ModulesTypeOK
  <1>3. ASSUME NEW m \in Scripts, NEW kind \in {"table", "value", "broken"},
               NEW funs \in SUBSET Functions, EditFile(m, kind, funs)
        PROVE  ModulesTypeOK'
    <2>1. edits + 1 \in 0..MaxEdits /\ 0 \in 0..MaxEdits
      BY <1>3, MaxEditsAssumption DEF EditFile, ModulesTypeOK
    <2>2. [f \in Functions |-> IF f \in funs THEN edits + 1 ELSE 0] \in Defined
      BY <2>1 DEF Defined
    <2>3. file' \in [Scripts -> [kind : {"table", "value", "broken"}, funs : Defined]]
      BY <1>3, <2>2 DEF EditFile, ModulesTypeOK
    <2> QED
      BY <1>3, <2>1, <2>3 DEF EditFile, tables, ModulesTypeOK
  <1>4. ASSUME NEW m \in Scripts, Require(m), UNCHANGED <<files, held, failed>>
        PROVE  ModulesTypeOK'
    BY <1>4, RequireTypes DEF files, ModulesTypeOK
  <1>5. ASSUME NEW m \in Scripts, Hold(m)
        PROVE  ModulesTypeOK'
    <2>1. held' \in [Scripts -> [is : {"none", "loaded", "own"}, funs : Defined]]
      BY <1>5 DEF Hold, ModulesTypeOK
    <2> QED
      BY <1>5, <2>1, RequireTypes DEF Hold, files, ModulesTypeOK
  <1>6. ASSUME NEW m \in Scripts, ReloadSucceeds(m)
        PROVE  ModulesTypeOK'
    <2>1. file[m].funs \in Defined /\ loaded[m].funs \in Defined
      BY DEF ModulesTypeOK
    <2>2. [f \in Functions |-> IF file[m].funs[f] # 0 THEN file[m].funs[f]
                               ELSE loaded[m].funs[f]] \in Defined
      BY <2>1 DEF Defined
    <2>3. loaded' \in [Scripts -> [is : {"nil", "value", "table"}, funs : Defined]]
      BY <1>6, <2>2 DEF ReloadSucceeds, Merge, ModulesTypeOK
    <2>4. latest' \in [Scripts -> Defined]
      BY <1>6, <2>1 DEF ReloadSucceeds, ModulesTypeOK
    <2> QED
      BY <1>6, <2>3, <2>4 DEF ReloadSucceeds, Merge, files, ModulesTypeOK
  <1>7. ASSUME NEW m \in Scripts, ReloadFails(m)
        PROVE  ModulesTypeOK'
    <2>1. file[m].funs \in Defined /\ Nothing \in Defined
      BY DefinedFacts DEF ModulesTypeOK
    <2>2. loaded' \in [Scripts -> [is : {"nil", "value", "table"}, funs : Defined]]
      BY <1>7, <2>1 DEF ReloadFails, ModulesTypeOK
    <2>3. latest' \in [Scripts -> Defined]
      BY <1>7, <2>1 DEF ReloadFails, ModulesTypeOK
    <2>4. failed' \subseteq Scripts
      BY <1>7 DEF ReloadFails, ModulesTypeOK
    <2> QED
      BY <1>7, <2>2, <2>3, <2>4, ApartTypes DEF ReloadFails, files, ModulesTypeOK
  <1> QED
    BY <1>1, <1>2, <1>3, <1>4, <1>5, <1>6, <1>7 DEF ModulesStep

LEMMA SeenInit == ModulesInit => ModulesTypeOK /\ SeenInv
  <1> SUFFICES ASSUME ModulesInit PROVE ModulesTypeOK /\ SeenInv
    OBVIOUS
  <1>1. ModulesTypeOK
    <2>1. 0 \in 0..MaxEdits
      BY MaxEditsAssumption
    <2>2. /\ file \in [Scripts -> [kind : {"table", "value", "broken"}, funs : Defined]]
          /\ loaded \in [Scripts -> [is : {"nil", "value", "table"}, funs : Defined]]
      BY DefinedFacts DEF ModulesInit
    <2>3. /\ latest \in [Scripts -> Defined]
          /\ held \in [Scripts -> [is : {"none", "loaded", "own"}, funs : Defined]]
      BY DefinedFacts DEF ModulesInit
    <2> QED
      BY <2>1, <2>2, <2>3 DEF ModulesInit, ModulesTypeOK
  <1>2. SeenInv
    BY DefinedFacts DEF ModulesInit, SeenInv, ReloadIsSeen
  <1> QED
    BY <1>1, <1>2

(* A script that is loaded or required is as its file was, or as it was before. *)
LEMMA SeenStep == ModulesTypeOK /\ SeenInv /\ ModulesStep => SeenInv'
  <1> SUFFICES ASSUME ModulesTypeOK, SeenInv, ModulesStep, NEW n \in Scripts
               PROVE  /\ \A g \in Functions :
                            latest'[n][g] # 0 /\ loaded'[n].is = "table" =>
                                loaded'[n].funs[g] = latest'[n][g]
                      /\ held'[n].is = "own" => n \in failed'
    BY DEF SeenInv, ReloadIsSeen
  <1>0. /\ \A g \in Functions : latest[n][g] # 0 /\ loaded[n].is = "table" =>
              loaded[n].funs[g] = latest[n][g]
        /\ held[n].is = "own" => n \in failed
    BY DEF SeenInv, ReloadIsSeen
  <1>1. CASE UNCHANGED tables
    BY <1>0, <1>1 DEF tables
  <1>2. ASSUME NEW m \in Scripts, Require(m)
        PROVE  \A g \in Functions : latest'[n][g] # 0 /\ loaded'[n].is = "table" =>
                   loaded'[n].funs[g] = latest'[n][g]
    <2>1. CASE loaded[m].is = "nil"
      <3>1. /\ loaded' = [loaded EXCEPT ![m] = Required(m)]
            /\ latest' = [latest EXCEPT ![m] = file[m].funs]
        BY <1>2, <2>1 DEF Require
      <3>2. Required(m).is = "table" => Required(m).funs = file[m].funs
        BY <2>1 DEF Required
      <3> QED
        BY <1>0, <3>1, <3>2 DEF ModulesTypeOK
    <2>2. CASE loaded[m].is # "nil"
      <3>1. loaded' = [loaded EXCEPT ![m] = loaded[m]] /\ latest' = latest
        BY <1>2, <2>2 DEF Require, Required
      <3> QED
        BY <1>0, <3>1 DEF ModulesTypeOK
    <2> QED
      BY <2>1, <2>2
  <1>3. ASSUME NEW m \in Scripts, Hold(m)
        PROVE  held'[n].is = "own" => n \in failed'
    BY <1>0, <1>3 DEF Hold, ModulesTypeOK
  <1>4. ASSUME NEW m \in Scripts, ReloadSucceeds(m)
        PROVE  /\ \A g \in Functions : latest'[n][g] # 0 /\ loaded'[n].is = "table" =>
                      loaded'[n].funs[g] = latest'[n][g]
               /\ held'[n].is = "own" => n \in failed'
    <2>1. CASE n = m
      <3>1. latest'[n] = file[m].funs
        BY <1>4, <2>1 DEF ReloadSucceeds, ModulesTypeOK
      <3>2. \A g \in Functions : loaded'[n].funs[g] =
                IF file[m].funs[g] # 0 THEN file[m].funs[g] ELSE loaded[m].funs[g]
        BY <1>4, <2>1 DEF ReloadSucceeds, Merge, ModulesTypeOK
      <3> QED
        BY <1>0, <1>4, <3>1, <3>2 DEF ReloadSucceeds, Merge
    <2>2. CASE n # m
      BY <1>0, <1>4, <2>2 DEF ReloadSucceeds, Merge, ModulesTypeOK
    <2> QED
      BY <2>1, <2>2
  <1>5. ASSUME NEW m \in Scripts, ReloadFails(m)
        PROVE  /\ \A g \in Functions : latest'[n][g] # 0 /\ loaded'[n].is = "table" =>
                      loaded'[n].funs[g] = latest'[n][g]
               /\ held'[n].is = "own" => n \in failed'
    <2>1. CASE n = m
      <3>1. loaded'[n].is = "table" => Loads(m) /\ loaded'[n].funs = file[m].funs
        BY <1>5, <2>1 DEF ReloadFails, ModulesTypeOK
      <3>2. Loads(m) => latest'[n] = file[m].funs
        BY <1>5, <2>1 DEF ReloadFails, ModulesTypeOK
      <3>3. n \in failed'
        BY <1>5, <2>1 DEF ReloadFails
      <3> QED
        BY <3>1, <3>2, <3>3
    <2>2. CASE n # m
      <3>1. loaded'[n] = loaded[n] /\ latest'[n] = latest[n] /\ held'[n] = held[n]
        BY <1>5, <2>2 DEF ReloadFails, Apart, ModulesTypeOK
      <3> QED
        BY <1>0, <1>5, <3>1 DEF ReloadFails
    <2> QED
      BY <2>1, <2>2
  <1>6. CASE UNCHANGED files_and_tables \/ Register
             \/ \E m \in Scripts, kind \in {"table", "value", "broken"}, funs \in SUBSET Functions :
                   EditFile(m, kind, funs)
    BY <1>1, <1>6 DEF files_and_tables, Register, EditFile
  <1>7. CASE \E m \in Scripts : Require(m) /\ UNCHANGED <<files, held, failed>>
    BY <1>0, <1>2, <1>7
  <1>8. CASE \E m \in Scripts : Hold(m)
    BY <1>2, <1>3, <1>8 DEF Hold
  <1>9. CASE \E m \in Scripts : ReloadSucceeds(m) \/ ReloadFails(m)
    BY <1>4, <1>5, <1>9
  <1> QED
    BY <1>6, <1>7, <1>8, <1>9 DEF ModulesStep

(***************************************************************************)
(* A reload is seen by every call, and by every script that holds the      *)
(* module's table unless a reload of the module has failed, whatever the   *)
(* edits and however the loads and reloads interleave with open calls.     *)
(***************************************************************************)
THEOREM ReloadSeen == Spec => []ReloadIsSeen
  <1>1. Init => ModulesTypeOK /\ SeenInv
    BY SeenInit DEF Init
  <1>2. ModulesTypeOK /\ SeenInv /\ [Next]_vars => ModulesTypeOK' /\ SeenInv'
    BY StepsOfModules, ModulesTypes, SeenStep
  <1>3. SeenInv => ReloadIsSeen
    BY DEF SeenInv
  <1> QED
    BY <1>1, <1>2, <1>3, PTL DEF Spec
-----------------------------------------------------------------------------
(***************************************************************************)
(* The stack.  What StackLayout and Bookkeeping say of a chain c of        *)
(* activations and of the frames s, so that a step is a change of c and s. *)
(***************************************************************************)
FrameNo(c, i) == 1 + Cardinality({j \in 1..i : c[j].pc = "native"})

Placed(c, f, i) ==
    /\ c[i].top = IF i = 1 \/ c[i].pc = "native" THEN 0 ELSE End(c[i - 1])
    /\ i = Len(c) \/ c[i + 1].pc = "native" => Len(f) = End(c[i])
    /\ \A k \in 1..Owns(c[i]) :
          /\ c[i].top + k <= Len(f)
          /\ f[c[i].top + k] \in Kinds(c[i], k) \X {i}

Layout(c, s) ==
    /\ Len(s) = FrameNo(c, Len(c))
    /\ c = <<>> => s = << <<>> >>
    /\ \A i \in DOMAIN c : Placed(c, s[FrameNo(c, i)], i)

Ordered(c) ==
    \A i, j \in DOMAIN c : i < j /\ FrameNo(c, i) = FrameNo(c, j) => End(c[i]) <= c[j].top

Books(c) ==
    /\ c # <<>> => c[1].pc # "native"
    /\ \A i \in DOMAIN c : Keeps(c[i])
    /\ Ordered(c)

LEMMA LayoutNow == StackLayout <=> Layout(ctl, stack)
  BY DEF StackLayout, Layout, Placed, FrameOf, FrameNo, Newest, Top

LEMMA LayoutNext == StackLayout' <=> Layout(ctl', stack')
  BY DEF StackLayout, Layout, Placed, FrameOf, FrameNo, Newest, Top

LEMMA BooksNow == Bookkeeping <=> (~booted => ctl = <<>>) /\ Books(ctl)
  BY DEF Bookkeeping, Books, Ordered, FrameOf, FrameNo

LEMMA BooksNext == Bookkeeping' <=> (~booted' => ctl' = <<>>) /\ Books(ctl')
  BY DEF Bookkeeping, Books, Ordered, FrameOf, FrameNo

LEMMA NativesFinite ==
    ASSUME NEW c, NEW i \in Nat
    PROVE  /\ IsFiniteSet({j \in 1..i : c[j].pc = "native"})
           /\ FrameNo(c, i) \in Nat \ {0}
  <1>1. IsFiniteSet(1..i)
    BY FS_Interval
  <1>2. IsFiniteSet({j \in 1..i : c[j].pc = "native"})
    BY <1>1, FS_Subset
  <1>3. Cardinality({j \in 1..i : c[j].pc = "native"}) \in Nat
    BY <1>2, FS_CardinalityType
  <1> QED
    BY <1>2, <1>3 DEF FrameNo

LEMMA FirstFrame == \A c : FrameNo(c, 0) = 1
  <1> SUFFICES ASSUME NEW c PROVE FrameNo(c, 0) = 1
    OBVIOUS
  <1>1. {j \in 1..0 : c[j].pc = "native"} = {}
    OBVIOUS
  <1> QED
    BY <1>1, FS_EmptySet DEF FrameNo

LEMMA NextFrame ==
    ASSUME NEW c, NEW i \in Nat
    PROVE  FrameNo(c, i + 1) = IF c[i + 1].pc = "native" THEN FrameNo(c, i) + 1 ELSE FrameNo(c, i)
  <1> DEFINE S == {j \in 1..i : c[j].pc = "native"}
  <1> DEFINE T == {j \in 1..(i + 1) : c[j].pc = "native"}
  <1>1. IsFiniteSet(S) /\ Cardinality(S) \in Nat
    BY NativesFinite, FS_CardinalityType
  <1>2. CASE c[i + 1].pc = "native"
    <2>1. T = S \cup {i + 1} /\ i + 1 \notin S
      BY <1>2
    <2>2. Cardinality(T) = Cardinality(S) + 1
      BY <1>1, <2>1, FS_AddElement
    <2> QED
      BY <1>1, <1>2, <2>2 DEF FrameNo
  <1>3. CASE c[i + 1].pc # "native"
    <2>1. T = S
      BY <1>3
    <2> QED
      BY <1>3, <2>1 DEF FrameNo
  <1> QED
    BY <1>2, <1>3

LEMMA FramesGrow ==
    ASSUME NEW c, NEW i \in Nat, NEW j \in Nat, i <= j
    PROVE  FrameNo(c, i) <= FrameNo(c, j)
  <1>1. {k \in 1..i : c[k].pc = "native"} \in SUBSET {k \in 1..j : c[k].pc = "native"}
    OBVIOUS
  <1>2. /\ IsFiniteSet({k \in 1..i : c[k].pc = "native"})
        /\ IsFiniteSet({k \in 1..j : c[k].pc = "native"})
    BY NativesFinite
  <1>3. /\ Cardinality({k \in 1..i : c[k].pc = "native"}) \in Nat
        /\ Cardinality({k \in 1..j : c[k].pc = "native"}) \in Nat
    BY <1>2, FS_CardinalityType
  <1>4. Cardinality({k \in 1..i : c[k].pc = "native"})
            <= Cardinality({k \in 1..j : c[k].pc = "native"})
    BY <1>1, <1>2, FS_Subset
  <1> QED
    BY <1>3, <1>4 DEF FrameNo

LEMMA SameFrames ==
    ASSUME NEW c, NEW d, NEW i \in Nat,
           \A j \in 1..i : (c[j].pc = "native") <=> (d[j].pc = "native")
    PROVE  FrameNo(c, i) = FrameNo(d, i)
  <1>1. {j \in 1..i : c[j].pc = "native"} = {j \in 1..i : d[j].pc = "native"}
    OBVIOUS
  <1> QED
    BY <1>1 DEF FrameNo

LEMMA OwnsFacts ==
    ASSUME NEW a \in Activations
    PROVE  /\ a.pc = "output" => Owns(a) = a.outs
           /\ a.pc = "run" => Owns(a) = 1
           /\ a.pc = "callback" => Owns(a) = 1 + LUA_RESULT_COUNT
           /\ a.pc = "native" => Owns(a) = a.count + a.outs
           /\ Owns(a) \in Nat /\ End(a) \in Nat /\ End(a) = a.top + Owns(a)
           /\ a.top \in Nat /\ a.outs \in Nat /\ a.count \in Nat
           /\ a.pc \in {"output", "run", "callback", "native"}
  <1>1. /\ a.top \in Nat /\ a.outs \in Nat /\ a.count \in Nat
        /\ a.pc \in {"output", "run", "callback", "native"}
    BY BoundsAssumption DEF Activations, MostRead, LUA_RESULT_COUNT
  <1>2. /\ a.pc = "output" => Owns(a) = a.outs
        /\ a.pc = "run" => Owns(a) = 1
        /\ a.pc = "callback" => Owns(a) = 1 + LUA_RESULT_COUNT
        /\ a.pc = "native" => Owns(a) = a.count + a.outs
    BY DEF Owns
  <1>3. Owns(a) \in Nat
    BY <1>1, <1>2 DEF LUA_RESULT_COUNT
  <1> QED
    BY <1>1, <1>2, <1>3 DEF End

LEMMA KindsFacts ==
    ASSUME NEW a \in Activations, NEW k \in Nat
    PROVE  /\ a.pc = "output" => Kinds(a, k) = {"in"}
           /\ a.pc = "native" /\ k <= a.count => Kinds(a, k) = {"arg"}
           /\ a.pc = "native" /\ k > a.count => Kinds(a, k) = {"out"}
           /\ a.pc \in {"run", "callback"} /\ k = 1 => Kinds(a, k) = {"trace"}
           /\ a.pc = "callback" /\ k # 1 /\ k <= a.count + 1 => Kinds(a, k) = {"result"}
           /\ a.pc = "callback" /\ k # 1 /\ k > a.count + 1 => Kinds(a, k) = {"result", "nil"}
  <1>1. a.count \in Nat
    BY OwnsFacts
  <1> QED
    BY <1>1 DEF Kinds

(* An activation keeps its place if what is below its end stays. *)
LEMMA StillPlaced ==
    ASSUME NEW c \in Seq(Activations), NEW d \in Seq(Activations), NEW i \in 1..Len(c),
           \A j \in 1..i : d[j] = c[j],
           NEW f \in Frame, NEW g \in Frame, Placed(c, g, i),
           f = g \/ (Len(f) >= End(c[i]) /\ \A k \in 1..End(c[i]) : f[k] = g[k]),
           i = Len(d) \/ d[i + 1].pc = "native" => Len(f) = End(c[i])
    PROVE  Placed(d, f, i)
  <1>1. d[i] = c[i] /\ c[i] \in Activations /\ i # 1 => d[i - 1] = c[i - 1]
    OBVIOUS
  <1>2. d[i].top = IF i = 1 \/ d[i].pc = "native" THEN 0 ELSE End(d[i - 1])
    BY <1>1 DEF Placed
  <1>3. ASSUME NEW k \in 1..Owns(c[i])
        PROVE  /\ c[i].top + k <= Len(f)
               /\ f[c[i].top + k] \in Kinds(c[i], k) \X {i}
    <2>1. c[i].top + k <= Len(g) /\ g[c[i].top + k] \in Kinds(c[i], k) \X {i}
      BY DEF Placed
    <2>0. Owns(c[i]) \in Nat /\ c[i].top \in Nat /\ End(c[i]) = c[i].top + Owns(c[i])
      BY <1>1, OwnsFacts
    <2>2. c[i].top + k \in 1..End(c[i])
      BY <2>0
    <2>3. CASE f = g
      BY <2>1, <2>3
    <2>4. CASE Len(f) >= End(c[i]) /\ \A j \in 1..End(c[i]) : f[j] = g[j]
      <3>1. f[c[i].top + k] = g[c[i].top + k]
        BY <2>2, <2>4
      <3>2. c[i].top + k <= Len(f)
        BY <2>0, <2>2, <2>4 DEF Frame
      <3> QED
        BY <2>1, <3>1, <3>2
    <2> QED
      BY <2>3, <2>4
  <1> QED
    BY <1>1, <1>2, <1>3 DEF Placed

LEMMA EndsInOrder ==
    ASSUME NEW c \in Seq(Activations), Books(c), NEW n \in 1..Len(c), NEW i \in 1..n,
           FrameNo(c, i) = FrameNo(c, n)
    PROVE  End(c[i]) <= End(c[n])
  <1>1. c[i] \in Activations /\ c[n] \in Activations
    OBVIOUS
  <1>2. i < n => End(c[i]) <= c[n].top
    BY DEF Books, Ordered
  <1> QED
    BY <1>1, <1>2, OwnsFacts

LEMMA NativeBetween ==
    ASSUME NEW c, NEW n \in Nat, NEW i \in Nat, i < n, c[i + 1].pc = "native"
    PROVE  FrameNo(c, i) < FrameNo(c, n)
  <1>1. FrameNo(c, i + 1) = FrameNo(c, i) + 1
    BY NextFrame
  <1>2. FrameNo(c, i + 1) <= FrameNo(c, n)
    BY FramesGrow
  <1>3. FrameNo(c, i) \in Nat /\ FrameNo(c, n) \in Nat
    BY NativesFinite
  <1> QED
    BY <1>1, <1>2, <1>3

(* Two chains that agree up to m have the same frames up to there. *)
LEMMA PrefixFrames ==
    ASSUME NEW c, NEW d, NEW m \in Nat, \A i \in 1..m : d[i] = c[i], NEW i \in 0..m
    PROVE  FrameNo(d, i) = FrameNo(c, i)
  BY SameFrames

LEMMA PrefixBooks ==
    ASSUME NEW c \in Seq(Activations), NEW d \in Seq(Activations), Books(c),
           NEW m \in Nat, m <= Len(c), m <= Len(d), \A i \in 1..m : d[i] = c[i]
    PROVE  /\ \A i \in 1..m : Keeps(d[i])
           /\ \A i, j \in 1..m : i < j /\ FrameNo(d, i) = FrameNo(d, j) => End(d[i]) <= d[j].top
  <1>1. \A i \in 1..m : FrameNo(d, i) = FrameNo(c, i)
    BY PrefixFrames
  <1> QED
    BY <1>1 DEF Books, Ordered

LEMMA OneEmptyFrame ==
    ASSUME NEW t \in Seq(Frame), Len(t) = 1, Len(t[1]) = 0
    PROVE  t = << <<>> >>
  <1>1. t[1] \in Frame
    OBVIOUS
  <1>2. t[1] = <<>>
    BY <1>1 DEF Frame
  <1>3. << <<>> >> \in Seq(Frame) /\ Len(<< <<>> >>) = 1 /\ << <<>> >>[1] = <<>>
    BY <1>1, <1>2
  <1>4. \A k \in 1..Len(t) : t[k] = << <<>> >>[k]
    BY <1>2, <1>3
  <1> QED
    BY <1>3, <1>4, SeqEqual

(* The activations above the n-th go, with what they put on the stack. *)
LEMMA LayoutPop ==
    ASSUME NEW c \in Seq(Activations), NEW s \in Seq(Frame), Layout(c, s), Books(c),
           NEW d \in Seq(Activations), NEW t \in Seq(Frame),
           Len(d) <= Len(c), \A i \in 1..Len(d) : d[i] = c[i],
           Len(t) = FrameNo(c, Len(d)),
           \A g \in 1..(Len(t) - 1) : t[g] = s[g],
           Len(t[Len(t)]) = IF Len(d) = 0 THEN 0 ELSE End(c[Len(d)]),
           \A k \in 1..Len(t[Len(t)]) : t[Len(t)][k] = s[Len(t)][k]
    PROVE  Layout(d, t) /\ Books(d)
  <1> DEFINE n == Len(d)
  <1>a. n \in Nat /\ Len(c) \in Nat
    OBVIOUS
  <1>0. n \in Nat /\ Len(c) \in Nat /\ Len(t) \in Nat \ {0}
    BY <1>a, NativesFinite
  <1>1. \A i \in 0..n : FrameNo(d, i) = FrameNo(c, i)
    BY <1>0, PrefixFrames
  <1>2. d = <<>> => t = << <<>> >>
    <2> SUFFICES ASSUME d = <<>> PROVE t = << <<>> >>
      OBVIOUS
    <2>1. Len(t) = 1
      BY FirstFrame
    <2>2. Len(t[1]) = 0
      BY <2>1
    <2> QED
      BY <2>1, <2>2, OneEmptyFrame
  <1>3. ASSUME NEW i \in 1..n
        PROVE  Placed(d, t[FrameNo(d, i)], i)
    <2>1. /\ FrameNo(d, i) = FrameNo(c, i) /\ Placed(c, s[FrameNo(c, i)], i)
          /\ c[i] \in Activations /\ c[n] \in Activations
      BY <1>0, <1>1 DEF Layout
    <2>a. FrameNo(c, i) <= FrameNo(c, n) /\ FrameNo(c, i) <= FrameNo(c, Len(c))
      BY <1>0, FramesGrow
    <2>b. /\ FrameNo(c, i) \in Nat \ {0} /\ FrameNo(c, n) \in Nat
          /\ FrameNo(c, Len(c)) \in Nat
      <3>1. i \in Nat
        BY <1>0
      <3> QED
        BY <1>0, <3>1, NativesFinite
    <2>2. /\ FrameNo(c, i) \in 1..Len(t) /\ FrameNo(c, i) \in 1..Len(s)
      BY <2>a, <2>b DEF Layout
    <2>3. t[FrameNo(c, i)] \in Frame /\ s[FrameNo(c, i)] \in Frame
      BY <2>2, ElementOfSeq
    <2>c. End(c[i]) \in Nat /\ End(c[n]) \in Nat
      BY <2>1, OwnsFacts
    <2>4. CASE FrameNo(c, i) = Len(t)
      <3>1. End(c[i]) <= End(c[n]) /\ Len(t[Len(t)]) = End(c[n])
        BY <1>0, <2>4, EndsInOrder
      <3>2. \A k \in 1..End(c[i]) : t[Len(t)][k] = s[Len(t)][k]
        BY <2>c, <3>1
      <3>3. i = n \/ d[i + 1].pc = "native" => Len(t[Len(t)]) = End(c[i])
        <4>1. ASSUME i # n, d[i + 1].pc = "native" PROVE FALSE
          <5>1. i < n /\ d[i + 1] = c[i + 1]
            BY <1>0, <4>1
          <5> QED
            BY <1>0, <2>4, <4>1, <5>1, NativeBetween
        <4> QED
          BY <3>1, <4>1
      <3>4. i \in 1..Len(c) /\ \A j \in 1..i : d[j] = c[j]
        BY <1>0
      <3>5. Len(t[Len(t)]) >= End(c[i])
        BY <2>c, <3>1
      <3>6. Placed(c, s[Len(t)], i) /\ t[Len(t)] \in Frame /\ s[Len(t)] \in Frame
        BY <2>1, <2>3, <2>4
      <3>7. Placed(d, t[Len(t)], i)
        BY <3>2, <3>3, <3>4, <3>5, <3>6, StillPlaced
      <3> QED
        BY <2>1, <2>4, <3>7
    <2>5. CASE FrameNo(c, i) # Len(t)
      <3>1. t[FrameNo(c, i)] = s[FrameNo(c, i)] /\ i # n
        BY <1>0, <2>2, <2>5, SMTT(30)
      <3>2. d[i + 1] = c[i + 1]
        BY <1>0, <3>1
      <3>3. i = n \/ d[i + 1].pc = "native" => Len(s[FrameNo(c, i)]) = End(c[i])
        BY <2>1, <3>1, <3>2 DEF Placed
      <3>4. i \in 1..Len(c) /\ \A j \in 1..i : d[j] = c[j]
        BY <1>0
      <3> QED
        BY <2>1, <2>3, <3>1, <3>3, <3>4, StillPlaced
    <2> QED
      BY <2>4, <2>5
  <1>4. Layout(d, t)
    BY <1>0, <1>1, <1>2, <1>3, SMTT(30) DEF Layout
  <1>5. Books(d)
    <2>1. /\ \A i \in 1..n : Keeps(d[i])
          /\ \A i, j \in 1..n : i < j /\ FrameNo(d, i) = FrameNo(d, j) => End(d[i]) <= d[j].top
      <3>1. n \in Nat /\ n <= Len(c) /\ n <= Len(d) /\ \A i \in 1..n : d[i] = c[i]
        BY <1>0
      <3> QED
        BY <3>1, PrefixBooks
    <2>2. d # <<>> => d[1].pc # "native"
      BY <1>0 DEF Books
    <2>3. DOMAIN d = 1..n
      OBVIOUS
    <2> QED
      BY <2>1, <2>2, <2>3 DEF Books, Ordered
  <1> QED
    BY <1>4, <1>5

(***************************************************************************)
(* A chain d that is c up to its n-th activation a, which is the newest:   *)
(* a call of C++ into Lua, above what is on the frame of the activation    *)
(* below it, or a C++ function that Lua called, alone in a new frame.      *)
(***************************************************************************)
AgreeBelow(c, d, n) ==
    /\ n = Len(d) /\ n - 1 <= Len(c)
    /\ \A i \in 1..(n - 1) : d[i] = c[i]

Holds(a, f, n) ==
    /\ Len(f) = End(a)
    /\ \A k \in 1..Owns(a) : f[a.top + k] \in Kinds(a, k) \X {n}

CallOnTop(c, s, a, t, n) ==
    /\ a.pc # "native" /\ Keeps(a)
    /\ a.top = IF n = 1 THEN 0 ELSE End(c[n - 1])
    /\ Len(t) = FrameNo(c, n - 1) /\ \A g \in 1..(Len(t) - 1) : t[g] = s[g]
    /\ Holds(a, t[Len(t)], n)
    /\ \A k \in 1..a.top : t[Len(t)][k] = s[Len(t)][k]

NativeOnTop(c, s, a, t, n) ==
    /\ a.pc = "native" /\ Keeps(a) /\ a.top = 0
    /\ n > 1 /\ (n - 1 = Len(c) \/ c[n].pc = "native")
    /\ Len(t) = FrameNo(c, n - 1) + 1 /\ \A g \in 1..(Len(t) - 1) : t[g] = s[g]
    /\ Holds(a, t[Len(t)], n)

LEMMA Below ==
    ASSUME NEW n \in Nat \ {0}, NEW i \in 1..(n - 1)
    PROVE  n # 1 /\ i # n /\ i \in Nat /\ n - 1 \in Nat /\ i <= n - 1 /\ i < n
  OBVIOUS

LEMMA TopFrame ==
    ASSUME NEW c, NEW d, NEW n \in Nat \ {0}, AgreeBelow(c, d, n)
    PROVE  /\ n - 1 \in Nat /\ (n - 1) + 1 = n
           /\ \A i \in 1..(n - 1) : FrameNo(d, i) = FrameNo(c, i)
           /\ FrameNo(d, n) = IF d[n].pc = "native" THEN FrameNo(c, n - 1) + 1
                                                    ELSE FrameNo(c, n - 1)
  <1>1. n - 1 \in Nat /\ (n - 1) + 1 = n
    OBVIOUS
  <1>2. \A i \in 0..(n - 1) : FrameNo(d, i) = FrameNo(c, i)
    BY <1>1, PrefixFrames DEF AgreeBelow
  <1>3. FrameNo(d, n - 1) = FrameNo(c, n - 1)
    BY <1>1, <1>2
  <1> QED
    BY <1>1, <1>2, <1>3, NextFrame

LEMMA TopOf ==
    ASSUME NEW d \in Seq(Activations), NEW n \in Nat \ {0}, n = Len(d)
    PROVE  /\ d[n] \in Activations /\ DOMAIN d = 1..n /\ d # <<>>
           /\ \A k \in 1..Owns(d[n]) : d[n].top + k <= End(d[n])
  <1>1. d[n] \in Activations /\ DOMAIN d = 1..n /\ d # <<>>
    OBVIOUS
  <1>2. d[n].top \in Nat /\ Owns(d[n]) \in Nat /\ End(d[n]) = d[n].top + Owns(d[n])
    BY <1>1, OwnsFacts
  <1> QED
    BY <1>1, <1>2

LEMMA BelowTop ==
    ASSUME NEW c \in Seq(Activations), NEW d \in Seq(Activations), Books(c),
           NEW n \in Nat \ {0}, AgreeBelow(c, d, n)
    PROVE  /\ \A i \in 1..(n - 1) : Keeps(d[i])
           /\ \A i, j \in 1..(n - 1) :
                 i < j /\ FrameNo(d, i) = FrameNo(d, j) => End(d[i]) <= d[j].top
           /\ n # 1 => d[1].pc # "native" /\ d[n - 1] = c[n - 1]
           /\ n - 1 \in Nat /\ n - 1 <= Len(c)
           /\ \A i \in 1..(n - 1) : /\ i \in 1..Len(c) /\ i # Len(d)
                                     /\ \A j \in 1..i : d[j] = c[j]
           /\ \A i \in 1..n : i = n \/ i \in 1..(n - 1)
  <1>1. n - 1 \in Nat /\ n - 1 <= Len(c) /\ n - 1 <= Len(d) /\ \A i \in 1..(n - 1) : d[i] = c[i]
    BY DEF AgreeBelow
  <1>2. /\ \A i \in 1..(n - 1) : Keeps(d[i])
        /\ \A i, j \in 1..(n - 1) :
              i < j /\ FrameNo(d, i) = FrameNo(d, j) => End(d[i]) <= d[j].top
    BY <1>1, PrefixBooks
  <1>3. n # 1 => d[1].pc # "native" /\ d[n - 1] = c[n - 1]
    BY <1>1 DEF Books
  <1>4. \A i \in 1..(n - 1) : i \in 1..Len(c) /\ i # Len(d) /\ \A j \in 1..i : d[j] = c[j]
    BY <1>1 DEF AgreeBelow
  <1> QED
    BY <1>1, <1>2, <1>3, <1>4

LEMMA FramesOfBelow ==
    ASSUME NEW c \in Seq(Activations), NEW s \in Seq(Frame), Layout(c, s), NEW t \in Seq(Frame),
           NEW m \in Nat, m <= Len(c), FrameNo(c, m) <= Len(t), NEW i \in 1..m
    PROVE  /\ FrameNo(c, i) \in Nat \ {0} /\ FrameNo(c, m) \in Nat
           /\ FrameNo(c, i) <= FrameNo(c, m)
           /\ FrameNo(c, i) \in 1..Len(t) /\ FrameNo(c, i) \in 1..Len(s)
           /\ t[FrameNo(c, i)] \in Frame /\ s[FrameNo(c, i)] \in Frame
           /\ Placed(c, s[FrameNo(c, i)], i)
           /\ c[i] \in Activations /\ End(c[i]) \in Nat
  <1>1. i \in Nat /\ i <= m /\ i <= Len(c) /\ Len(c) \in Nat /\ i \in 1..Len(c)
    OBVIOUS
  <1>2. FrameNo(c, i) \in Nat \ {0} /\ FrameNo(c, m) \in Nat /\ FrameNo(c, Len(c)) \in Nat
    BY <1>1, NativesFinite
  <1>3. FrameNo(c, i) <= FrameNo(c, m) /\ FrameNo(c, i) <= FrameNo(c, Len(c))
    BY <1>1, FramesGrow
  <1>4. FrameNo(c, i) \in 1..Len(t) /\ FrameNo(c, i) \in 1..Len(s)
    BY <1>2, <1>3 DEF Layout
  <1>5. t[FrameNo(c, i)] \in Frame /\ s[FrameNo(c, i)] \in Frame
    BY <1>4, ElementOfSeq
  <1>6. Placed(c, s[FrameNo(c, i)], i) /\ c[i] \in Activations
    BY <1>1 DEF Layout
  <1> QED
    BY <1>2, <1>3, <1>4, <1>5, <1>6, OwnsFacts

(* The activations up to the one below the n-th, if the n-th is a call. *)
LEMMA BelowCall ==
    ASSUME NEW c \in Seq(Activations), NEW s \in Seq(Frame), Layout(c, s), Books(c),
           NEW d \in Seq(Activations), NEW t \in Seq(Frame),
           NEW n \in Nat \ {0}, AgreeBelow(c, d, n), CallOnTop(c, s, d[n], t, n),
           NEW i \in 1..(n - 1)
    PROVE  Placed(d, t[FrameNo(d, i)], i) /\ (FrameNo(d, i) = FrameNo(d, n) => End(d[i]) <= d[n].top)
  <1>0. /\ n # 1 /\ i # n /\ i \in Nat /\ n - 1 \in Nat /\ i <= n - 1
    BY Below
  <1>1. /\ n - 1 <= Len(c) /\ i \in 1..Len(c) /\ i # Len(d) /\ \A j \in 1..i : d[j] = c[j]
    BY BelowTop
  <1>2. FrameNo(d, i) = FrameNo(c, i) /\ FrameNo(d, n) = FrameNo(c, n - 1)
    BY TopFrame DEF CallOnTop
  <1>3. Len(t) = FrameNo(c, n - 1)
    BY DEF CallOnTop
  <1>4. /\ FrameNo(c, i) \in Nat \ {0} /\ Len(t) \in Nat /\ FrameNo(c, i) <= Len(t)
        /\ t[FrameNo(c, i)] \in Frame /\ s[FrameNo(c, i)] \in Frame
        /\ Placed(c, s[FrameNo(c, i)], i)
        /\ c[i] \in Activations /\ End(c[i]) \in Nat
    <2>1. FrameNo(c, n - 1) <= Len(t) /\ Len(t) \in Nat
      BY <1>3
    <2> QED
      BY <1>0, <1>1, <1>3, <2>1, FramesOfBelow
  <1>5. d[i] = c[i]
    BY <1>0, <1>1
  <1>6. d[i + 1].pc = "native" => i < n - 1 /\ c[i + 1].pc = "native"
    <2>1. CASE i = n - 1
      BY <1>0, <2>1 DEF CallOnTop
    <2>2. CASE i # n - 1
      <3>1. i + 1 \in 1..(n - 1) /\ i < n - 1
        BY <1>0, <2>2
      <3> QED
        BY <3>1 DEF AgreeBelow
    <2> QED
      BY <2>1, <2>2
  <1>7. CASE FrameNo(c, i) = Len(t)
    <2>1. End(c[i]) <= End(c[n - 1])
      <3>1. n - 1 \in 1..Len(c) /\ FrameNo(c, i) = FrameNo(c, n - 1)
        BY <1>0, <1>1, <1>3, <1>7
      <3> QED
        BY <3>1, EndsInOrder
    <2>2. d[n].top = End(c[n - 1]) /\ Len(t[Len(t)]) = End(d[n])
      BY <1>0 DEF CallOnTop, Holds
    <2>3. d[n] \in Activations
      BY TopOf DEF AgreeBelow
    <2>4. End(d[n]) = d[n].top + Owns(d[n]) /\ Owns(d[n]) \in Nat /\ d[n].top \in Nat
      BY <2>3, OwnsFacts
    <2>5. Len(t[Len(t)]) >= End(c[i]) /\ \A k \in 1..End(c[i]) : k \in 1..d[n].top
      BY <1>4, <2>1, <2>2, <2>4, SMTT(30)
    <2>6. \A k \in 1..End(c[i]) : t[Len(t)][k] = s[Len(t)][k]
      BY <2>5 DEF CallOnTop
    <2>7. d[i + 1].pc # "native"
      <3>1. ASSUME d[i + 1].pc = "native" PROVE FALSE
        <4>1. FrameNo(c, i) < FrameNo(c, n - 1)
          BY <1>0, <1>6, <3>1, NativeBetween
        <4> QED
          BY <1>3, <1>4, <1>7, <4>1
      <3> QED
        BY <3>1
    <2>8. Placed(c, s[Len(t)], i) /\ t[Len(t)] \in Frame /\ s[Len(t)] \in Frame
      BY <1>4, <1>7
    <2>9. Placed(d, t[Len(t)], i)
      BY <1>1, <2>5, <2>6, <2>7, <2>8, StillPlaced
    <2> QED
      BY <1>2, <1>5, <1>7, <2>1, <2>2, <2>9
  <1>8. CASE FrameNo(c, i) # Len(t)
    <2>1. FrameNo(c, i) \in 1..(Len(t) - 1)
      BY <1>4, <1>8
    <2>2. t[FrameNo(c, i)] = s[FrameNo(c, i)]
      BY <2>1 DEF CallOnTop
    <2>3. d[i + 1].pc = "native" => Len(s[FrameNo(c, i)]) = End(c[i])
      BY <1>4, <1>6 DEF Placed
    <2>4. Placed(d, s[FrameNo(c, i)], i)
      BY <1>1, <1>4, <2>3, StillPlaced
    <2> QED
      BY <1>2, <1>3, <1>8, <2>2, <2>4
  <1> QED
    BY <1>7, <1>8

(* The newest activation on top of the others. *)
LEMMA WithTop ==
    ASSUME NEW c \in Seq(Activations), Books(c),
           NEW d \in Seq(Activations), NEW t \in Seq(Frame),
           NEW n \in Nat \ {0}, AgreeBelow(c, d, n),
           Len(t) = FrameNo(d, n), Keeps(d[n]), Holds(d[n], t[Len(t)], n),
           d[n].top = IF n = 1 \/ d[n].pc = "native" THEN 0 ELSE End(c[n - 1]),
           n = 1 => d[1].pc # "native",
           \A i \in 1..(n - 1) : /\ Placed(d, t[FrameNo(d, i)], i)
                                 /\ FrameNo(d, i) = FrameNo(d, n) => End(d[i]) <= d[n].top
    PROVE  Layout(d, t) /\ Books(d)
  <1>1. DOMAIN d = 1..n /\ d # <<>> /\ n = Len(d)
        /\ \A k \in 1..Owns(d[n]) : d[n].top + k <= End(d[n])
    BY TopOf DEF AgreeBelow
  <1>2. n # 1 => d[n - 1] = c[n - 1] /\ d[1].pc # "native"
    BY BelowTop
  <1>3. /\ \A i \in 1..(n - 1) : Keeps(d[i])
        /\ \A i, j \in 1..(n - 1) :
              i < j /\ FrameNo(d, i) = FrameNo(d, j) => End(d[i]) <= d[j].top
        /\ \A i \in 1..n : i = n \/ i \in 1..(n - 1)
    BY BelowTop
  <1>4. Placed(d, t[FrameNo(d, n)], n)
    <2>1. d[n].top = IF n = 1 \/ d[n].pc = "native" THEN 0 ELSE End(d[n - 1])
      BY <1>2
    <2>2. /\ Len(t[Len(t)]) = End(d[n])
          /\ \A k \in 1..Owns(d[n]) : t[Len(t)][d[n].top + k] \in Kinds(d[n], k) \X {n}
      BY DEF Holds
    <2>3. \A k \in 1..Owns(d[n]) :
             /\ d[n].top + k <= Len(t[Len(t)])
             /\ t[Len(t)][d[n].top + k] \in Kinds(d[n], k) \X {n}
      BY <1>1, <2>2
    <2>4. Placed(d, t[Len(t)], n)
      BY <1>1, <2>1, <2>2, <2>3 DEF Placed
    <2> QED
      BY <2>4
  <1>5. Layout(d, t)
    BY <1>1, <1>3, <1>4 DEF Layout
  <1>6. ASSUME NEW i \in 1..n, NEW j \in 1..n, i < j, FrameNo(d, i) = FrameNo(d, j)
        PROVE  End(d[i]) <= d[j].top
    <2>1. i \in 1..(n - 1)
      BY <1>6
    <2>2. CASE j = n
      BY <1>6, <2>1, <2>2
    <2>3. CASE j # n
      BY <1>3, <1>6, <2>1, <2>3
    <2> QED
      BY <2>2, <2>3
  <1>7. Books(d)
    BY <1>1, <1>2, <1>3, <1>6 DEF Books, Ordered
  <1> QED
    BY <1>5, <1>7

LEMMA LayoutCall ==
    ASSUME NEW c \in Seq(Activations), NEW s \in Seq(Frame), Layout(c, s), Books(c),
           NEW d \in Seq(Activations), NEW t \in Seq(Frame),
           NEW n \in Nat \ {0}, AgreeBelow(c, d, n), CallOnTop(c, s, d[n], t, n)
    PROVE  Layout(d, t) /\ Books(d)
  <1>1. \A i \in 1..(n - 1) : /\ Placed(d, t[FrameNo(d, i)], i)
                              /\ FrameNo(d, i) = FrameNo(d, n) => End(d[i]) <= d[n].top
    BY BelowCall
  <1>2. FrameNo(d, n) = FrameNo(c, n - 1)
    BY TopFrame DEF CallOnTop
  <1>3. /\ Len(t) = FrameNo(d, n) /\ Keeps(d[n]) /\ Holds(d[n], t[Len(t)], n)
        /\ d[n].top = IF n = 1 \/ d[n].pc = "native" THEN 0 ELSE End(c[n - 1])
        /\ n = 1 => d[1].pc # "native"
    BY <1>2 DEF CallOnTop
  <1> QED
    BY <1>1, <1>3, WithTop

LEMMA LayoutNative ==
    ASSUME NEW c \in Seq(Activations), NEW s \in Seq(Frame), Layout(c, s), Books(c),
           NEW d \in Seq(Activations), NEW t \in Seq(Frame),
           NEW n \in Nat \ {0}, AgreeBelow(c, d, n), NativeOnTop(c, s, d[n], t, n)
    PROVE  Layout(d, t) /\ Books(d)
  <1>1. ASSUME NEW i \in 1..(n - 1)
        PROVE  Placed(d, t[FrameNo(d, i)], i) /\ FrameNo(d, i) # FrameNo(d, n)
    <2>0. /\ n # 1 /\ i # n /\ i \in Nat /\ n - 1 \in Nat /\ i <= n - 1
      BY Below
    <2>1. /\ n - 1 <= Len(c) /\ i \in 1..Len(c) /\ i # Len(d) /\ \A j \in 1..i : d[j] = c[j]
      BY BelowTop
    <2>2. FrameNo(d, i) = FrameNo(c, i) /\ FrameNo(d, n) = FrameNo(c, n - 1) + 1
      BY TopFrame DEF NativeOnTop
    <2>3. Len(t) = FrameNo(c, n - 1) + 1 /\ FrameNo(c, n - 1) \in Nat
      BY <2>0, NativesFinite DEF NativeOnTop
    <2>4. FrameNo(c, n - 1) <= Len(t)
      BY <2>3
    <2>5. /\ FrameNo(c, i) \in Nat \ {0} /\ FrameNo(c, i) <= FrameNo(c, n - 1)
          /\ s[FrameNo(c, i)] \in Frame
          /\ Placed(c, s[FrameNo(c, i)], i)
      BY <2>0, <2>1, <2>4, FramesOfBelow
    <2>6. FrameNo(c, i) \in 1..(Len(t) - 1) /\ FrameNo(c, i) # FrameNo(c, n - 1) + 1
      BY <2>3, <2>5
    <2>7. t[FrameNo(c, i)] = s[FrameNo(c, i)]
      BY <2>6 DEF NativeOnTop
    <2>8. d[i + 1].pc = "native" => i = Len(c) \/ c[i + 1].pc = "native"
      <3>1. CASE i = n - 1
        BY <2>0, <3>1 DEF NativeOnTop
      <3>2. CASE i # n - 1
        <4>1. i + 1 \in 1..(n - 1)
          BY <2>0, <3>2
        <4> QED
          BY <4>1 DEF AgreeBelow
      <3> QED
        BY <3>1, <3>2
    <2>9. d[i + 1].pc = "native" => Len(s[FrameNo(c, i)]) = End(c[i])
      BY <2>5, <2>8 DEF Placed
    <2>10. Placed(d, s[FrameNo(c, i)], i)
      BY <2>1, <2>5, <2>9, StillPlaced
    <2> QED
      BY <2>2, <2>6, <2>7, <2>10
  <1>2. FrameNo(d, n) = FrameNo(c, n - 1) + 1
    BY TopFrame DEF NativeOnTop
  <1>3. /\ Len(t) = FrameNo(d, n) /\ Keeps(d[n]) /\ Holds(d[n], t[Len(t)], n)
        /\ d[n].top = IF n = 1 \/ d[n].pc = "native" THEN 0 ELSE End(c[n - 1])
        /\ n = 1 => d[1].pc # "native"
    BY <1>2 DEF NativeOnTop
  <1> QED
    BY <1>1, <1>3, WithTop

-----------------------------------------------------------------------------
(* What the operations on a frame do to its slots. *)

LEMMA FrontLast ==
    ASSUME NEW s \in Seq(Frame), s # <<>>
    PROVE  /\ Last(s) = s[Len(s)] /\ Last(s) \in Frame /\ Len(s) \in Nat \ {0}
           /\ Front(s) \in Seq(Frame) /\ Len(Front(s)) = Len(s) - 1
           /\ \A g \in 1..(Len(s) - 1) : Front(s)[g] = s[g]
  <1>1. Len(s) \in Nat \ {0}
    OBVIOUS
  <1>2. Last(s) = s[Len(s)] /\ Last(s) \in Frame
    BY <1>1 DEF Last
  <1>3. /\ Front(s) \in Seq(Frame) /\ Len(Front(s)) = Len(s) - 1
        /\ \A g \in 1..(Len(s) - 1) : Front(s)[g] = s[g]
    <2>1. PICK m \in Nat : m = Len(s) - 1
      BY <1>1
    <2>2. \A g \in 1..m : s[g] \in Frame
      BY <1>1, <2>1, ElementOfSeq
    <2>3. /\ SubSeq(s, 1, m) \in Seq(Frame)
          /\ Len(SubSeq(s, 1, m)) = IF 1 <= m THEN m - 1 + 1 ELSE 0
          /\ \A g \in 1..(m - 1 + 1) : SubSeq(s, 1, m)[g] = s[1 + g - 1]
      BY <2>2, SubSeqProperties
    <2>4. Len(SubSeq(s, 1, m)) = m
      BY <2>3
    <2>5. \A g \in 1..m : SubSeq(s, 1, m)[g] = s[g]
      BY <2>3
    <2>6. Front(s) = SubSeq(s, 1, m)
      BY <2>1 DEF Front
    <2> QED
      BY <2>1, <2>3, <2>4, <2>5, <2>6
  <1> QED
    BY <1>1, <1>2, <1>3

LEMMA OtherFrame ==
    ASSUME NEW s \in Seq(Frame), s # <<>>, NEW f \in Frame
    PROVE  LET t == Front(s) \o <<f>>
           IN  /\ t \in Seq(Frame) /\ Len(t) = Len(s) /\ t[Len(t)] = f /\ Last(t) = f
               /\ \A g \in 1..(Len(t) - 1) : t[g] = s[g]
  <1> DEFINE t == Front(s) \o <<f>>
  <1>1. /\ Front(s) \in Seq(Frame) /\ Len(Front(s)) = Len(s) - 1 /\ Len(s) \in Nat \ {0}
        /\ \A g \in 1..(Len(s) - 1) : Front(s)[g] = s[g]
    BY FrontLast
  <1>2. <<f>> \in Seq(Frame) /\ Len(<<f>>) = 1 /\ <<f>>[1] = f
    OBVIOUS
  <1>3. /\ t \in Seq(Frame) /\ Len(t) = Len(Front(s)) + 1
        /\ \A g \in 1..(Len(Front(s)) + 1) :
              t[g] = IF g <= Len(Front(s)) THEN Front(s)[g] ELSE <<f>>[g - Len(Front(s))]
    BY <1>1, <1>2, ConcatProperties
  <1> HIDE DEF t
  <1>4. Len(t) = Len(s)
    BY <1>1, <1>3
  <1>5. t[Len(t)] = f
    BY <1>1, <1>2, <1>3, <1>4
  <1>6. \A g \in 1..(Len(t) - 1) : t[g] = s[g]
    BY <1>1, <1>3, <1>4
  <1>7. Last(t) = f
    BY <1>5 DEF Last
  <1> QED
    BY <1>3, <1>4, <1>5, <1>6, <1>7 DEF t

LEMMA PopFacts ==
    ASSUME NEW f \in Frame, NEW m \in 0..Len(f)
    PROVE  /\ Pop(f, m) \in Frame /\ Len(Pop(f, m)) = Len(f) - m
           /\ \A k \in 1..(Len(f) - m) : Pop(f, m)[k] = f[k]
  BY DEF Pop, Frame

LEMMA PushFacts ==
    ASSUME NEW f \in Frame, NEW x \in Slot
    PROVE  /\ Append(f, x) \in Frame /\ Len(Append(f, x)) = Len(f) + 1
           /\ \A k \in 1..Len(f) : Append(f, x)[k] = f[k]
           /\ Append(f, x)[Len(f) + 1] = x
  BY DEF Frame

LEMMA JoinFacts ==
    ASSUME NEW f \in Frame, NEW g \in Frame
    PROVE  /\ f \o g \in Frame /\ Len(f \o g) = Len(f) + Len(g)
           /\ \A k \in 1..Len(f) : (f \o g)[k] = f[k]
           /\ \A k \in 1..Len(g) : (f \o g)[Len(f) + k] = g[k]
  BY DEF Frame

LEMMA SlotsFacts ==
    ASSUME NEW tag \in Tags, NEW i \in 0..MaxDepth, NEW n \in Nat
    PROVE  /\ <<tag, i>> \in Slot
           /\ Slots(tag, i, n) \in Frame /\ Len(Slots(tag, i, n)) = n
           /\ \A k \in 1..n : Slots(tag, i, n)[k] = <<tag, i>>
  BY DEF Slots, Frame, Slot

LEMMA LuaInsertFacts ==
    ASSUME NEW f \in Frame, NEW k \in 1..Len(f)
    PROVE  /\ LuaInsert(f, k) \in Frame /\ Len(LuaInsert(f, k)) = Len(f)
           /\ \A j \in 1..(Len(f) - k) : LuaInsert(f, k)[j] = f[j]
           /\ LuaInsert(f, k)[Len(f) - k + 1] = f[Len(f)]
           /\ \A j \in (Len(f) - k + 2)..Len(f) : LuaInsert(f, k)[j] = f[j - 1]
  <1> DEFINE a == SubSeq(f, 1, Len(f) - k)
  <1> DEFINE b == <<f[Len(f)]>>
  <1> DEFINE z == SubSeq(f, Len(f) - k + 1, Len(f) - 1)
  <1>1. a \in Frame /\ Len(a) = Len(f) - k /\ \A j \in 1..(Len(f) - k) : a[j] = f[j]
    BY DEF Frame
  <1>2. b \in Frame /\ Len(b) = 1 /\ b[1] = f[Len(f)]
    BY DEF Frame
  <1>3. z \in Frame /\ Len(z) = k - 1 /\ \A j \in 1..(k - 1) : z[j] = f[Len(f) - k + j]
    BY DEF Frame
  <1>4. LuaInsert(f, k) = (a \o b) \o z
    BY DEF LuaInsert, Last
  <1> HIDE DEF a, b, z
  <1>5. /\ a \o b \in Frame /\ Len(a \o b) = Len(f) - k + 1
        /\ \A j \in 1..(Len(f) - k) : (a \o b)[j] = f[j]
        /\ (a \o b)[Len(f) - k + 1] = f[Len(f)]
    <2>1. /\ a \o b \in Frame /\ Len(a \o b) = Len(a) + Len(b)
          /\ \A j \in 1..Len(a) : (a \o b)[j] = a[j]
          /\ \A j \in 1..Len(b) : (a \o b)[Len(a) + j] = b[j]
      BY <1>1, <1>2, JoinFacts
    <2> QED
      BY <1>1, <1>2, <2>1
  <1>6. /\ (a \o b) \o z \in Frame /\ Len((a \o b) \o z) = Len(f)
        /\ \A j \in 1..(Len(f) - k + 1) : ((a \o b) \o z)[j] = (a \o b)[j]
        /\ \A j \in 1..(k - 1) : ((a \o b) \o z)[(Len(f) - k + 1) + j] = z[j]
    <2>1. /\ (a \o b) \o z \in Frame /\ Len((a \o b) \o z) = Len(a \o b) + Len(z)
          /\ \A j \in 1..Len(a \o b) : ((a \o b) \o z)[j] = (a \o b)[j]
          /\ \A j \in 1..Len(z) : ((a \o b) \o z)[Len(a \o b) + j] = z[j]
      BY <1>3, <1>5, JoinFacts
    <2>2. Len(f) \in Nat /\ k \in Nat
      BY DEF Frame
    <2>3. (Len(f) - k + 1) + (k - 1) = Len(f)
      BY <2>2
    <2>4. Len((a \o b) \o z) = Len(f)
      BY ONLY <1>3, <1>5, <2>1, <2>3, ZenonT(30)
    <2> QED
      BY ONLY <1>3, <1>5, <2>1, <2>4, ZenonT(30)
  <1>7. Len(f) \in Nat /\ k \in Nat /\ k >= 1 /\ k <= Len(f)
    BY DEF Frame
  <1>8. ASSUME NEW j \in (Len(f) - k + 2)..Len(f)
        PROVE  LuaInsert(f, k)[j] = f[j - 1]
    <2>0. j - (Len(f) - k + 1) \in 1..(k - 1)
      BY <1>7
    <2>1. PICK m \in 1..(k - 1) : m = j - (Len(f) - k + 1)
      BY <2>0
    <2>2. j = (Len(f) - k + 1) + m /\ Len(f) - k + m = j - 1
      BY <1>7, <2>1
    <2>3. ((a \o b) \o z)[(Len(f) - k + 1) + m] = z[m] /\ z[m] = f[Len(f) - k + m]
      BY <1>3, <1>6
    <2> QED
      BY <1>4, <2>2, <2>3
  <1>9. \A j \in 1..(Len(f) - k) : j \in 1..(Len(f) - k + 1)
    BY <1>7
  <1>10. Len(f) - k + 1 \in 1..(Len(f) - k + 1)
    BY <1>7
  <1> QED
    BY <1>4, <1>5, <1>6, <1>8, <1>9, <1>10

Handler(i) == <<"trace", i>>

LEMMA GuardedFacts ==
    ASSUME NEW f \in Frame, NEW argc \in 0..Len(f), NEW i \in 0..MaxDepth, NEW b, b = Len(f) - argc
    PROVE  /\ Guarded(f, argc, i) \in Frame /\ Len(Guarded(f, argc, i)) = Len(f) + 2
           /\ \A j \in 1..b : Guarded(f, argc, i)[j] = f[j]
           /\ Guarded(f, argc, i)[b + 1] = Handler(i)
           /\ \A j \in (b + 3)..(Len(f) + 2) : Guarded(f, argc, i)[j] = f[j - 2]
  <1> DEFINE e == Append(f, <<"fun", i>>)
  <1> DEFINE w == LuaInsert(e, argc + 1)
  <1> DEFINE h == Append(w, Handler(i))
  <1> DEFINE g == LuaInsert(h, argc + 2)
  <1>0. Len(f) \in Nat /\ argc \in Nat /\ argc <= Len(f) /\ b \in Nat /\ b = Len(f) - argc
    BY DEF Frame
  <1>1. <<"fun", i>> \in Slot /\ Handler(i) \in Slot
    BY DEF Slot, Tags, Handler
  <1>2. /\ e \in Frame /\ Len(e) = Len(f) + 1 /\ e[Len(f) + 1] = <<"fun", i>>
        /\ \A j \in 1..Len(f) : e[j] = f[j]
    BY <1>1, PushFacts
  <1> HIDE DEF e
  <1>3. /\ w \in Frame /\ Len(w) = Len(f) + 1
        /\ \A j \in 1..b : w[j] = f[j]
        /\ \A j \in (b + 2)..(Len(f) + 1) : w[j] = f[j - 1]
    <2>1. argc + 1 \in 1..Len(e) /\ Len(e) - (argc + 1) = b /\ b + 2 = Len(e) - (argc + 1) + 2
      BY <1>0, <1>2
    <2>2. /\ w \in Frame /\ Len(w) = Len(e)
          /\ \A j \in 1..(Len(e) - (argc + 1)) : w[j] = e[j]
          /\ \A j \in (Len(e) - (argc + 1) + 2)..Len(e) : w[j] = e[j - 1]
      BY <1>2, <2>1, LuaInsertFacts
    <2> HIDE DEF w
    <2>3. \A j \in 1..b : w[j] = f[j]
      BY <1>0, <1>2, <2>1, <2>2
    <2>4. ASSUME NEW j \in (b + 2)..(Len(f) + 1) PROVE w[j] = f[j - 1]
      <3>1. j - 1 \in 1..Len(f) /\ j \in (Len(e) - (argc + 1) + 2)..Len(e)
        BY <1>0, <1>2, <2>1
      <3> QED
        BY <1>2, <2>2, <3>1
    <2> QED
      BY <1>2, <2>2, <2>3, <2>4
  <1> HIDE DEF w
  <1>4. /\ h \in Frame /\ Len(h) = Len(f) + 2 /\ h[Len(f) + 2] = Handler(i)
        /\ \A j \in 1..(Len(f) + 1) : h[j] = w[j]
    <2>1. /\ h \in Frame /\ Len(h) = Len(w) + 1 /\ h[Len(w) + 1] = Handler(i)
          /\ \A j \in 1..Len(w) : h[j] = w[j]
      BY <1>1, <1>3, PushFacts
    <2> HIDE DEF h
    <2>2. Len(w) + 1 = Len(f) + 2
      BY <1>0, <1>3
    <2> QED
      BY <1>3, <2>1, <2>2
  <1> HIDE DEF h
  <1>5. /\ g \in Frame /\ Len(g) = Len(f) + 2
        /\ \A j \in 1..b : g[j] = f[j]
        /\ g[b + 1] = Handler(i)
        /\ \A j \in (b + 3)..(Len(f) + 2) : g[j] = f[j - 2]
    <2>1. /\ argc + 2 \in 1..Len(h) /\ Len(h) - (argc + 2) = b
          /\ b + 2 = Len(h) - (argc + 2) + 2 /\ b + 1 = Len(h) - (argc + 2) + 1
      BY <1>0, <1>4
    <2>2. /\ g \in Frame /\ Len(g) = Len(h)
          /\ \A j \in 1..(Len(h) - (argc + 2)) : g[j] = h[j]
          /\ g[Len(h) - (argc + 2) + 1] = h[Len(h)]
          /\ \A j \in (Len(h) - (argc + 2) + 2)..Len(h) : g[j] = h[j - 1]
      BY <1>4, <2>1, LuaInsertFacts
    <2> HIDE DEF g
    <2>3. ASSUME NEW j \in 1..b PROVE g[j] = f[j]
      <3>1. j \in 1..(Len(f) + 1) /\ j \in 1..(Len(h) - (argc + 2))
        BY <1>0, <2>1
      <3> QED
        BY <1>3, <1>4, <2>2, <3>1
    <2>4. ASSUME NEW j \in (b + 3)..(Len(f) + 2) PROVE g[j] = f[j - 2]
      <3>1. /\ j - 1 \in 1..(Len(f) + 1) /\ j - 1 \in (b + 2)..(Len(f) + 1)
            /\ j \in (Len(h) - (argc + 2) + 2)..Len(h) /\ (j - 1) - 1 = j - 2
        BY <1>0, <1>4, <2>1
      <3>2. g[j] = h[j - 1] /\ h[j - 1] = w[j - 1] /\ w[j - 1] = f[(j - 1) - 1]
        BY <1>3, <1>4, <2>2, <3>1
      <3> QED
        BY <3>1, <3>2
    <2> QED
      BY <1>4, <2>1, <2>2, <2>3, <2>4
  <1>6. Guarded(f, argc, i) = g
    BY DEF Guarded, Handler, g, h, w, e
  <1> QED
    BY <1>5, <1>6

LEMMA AfterErrorFacts ==
    ASSUME NEW c \in Frame, Len(c) >= 1, NEW x \in Slot
    PROVE  /\ AfterError(Append(c, x)) \in Frame
           /\ Len(AfterError(Append(c, x))) = Len(c) - 1
           /\ \A j \in 1..(Len(c) - 1) : AfterError(Append(c, x))[j] = c[j]
  <1> DEFINE e == Append(c, x)
  <1>0. PICK f : f = AfterError(Append(c, x))
    OBVIOUS
  <1>1. e \in Frame /\ Len(e) = Len(c) + 1 /\ \A k \in 1..Len(c) : e[k] = c[k]
    BY PushFacts
  <1>2. f = Pop(e, 2)
    BY <1>0 DEF AfterError
  <1> HIDE DEF e
  <1>3. Len(c) \in Nat
    BY DEF Frame
  <1>4. 2 \in 0..Len(e) /\ Len(e) - 2 = Len(c) - 1
    BY <1>1, <1>3
  <1>5. f \in Frame /\ Len(f) = Len(c) - 1 /\ \A k \in 1..(Len(c) - 1) : f[k] = e[k]
    <2>1. /\ Pop(e, 2) \in Frame /\ Len(Pop(e, 2)) = Len(e) - 2
          /\ \A k \in 1..(Len(e) - 2) : Pop(e, 2)[k] = e[k]
      BY ONLY <1>1, <1>4, PopFacts
    <2> QED
      BY ONLY <1>2, <1>4, <2>1, ZenonT(30)
  <1>6. f \in Frame /\ Len(f) = Len(c) - 1 /\ \A j \in 1..(Len(c) - 1) : f[j] = c[j]
    BY <1>1, <1>3, <1>5
  <1> QED
    BY ONLY <1>0, <1>6, ZenonT(30)

LEMMA ResultsFacts ==
    ASSUME NEW ret \in Seq({"result", "nil"}), NEW i \in 0..MaxDepth
    PROVE  /\ Results(ret, i) \in Frame /\ Len(Results(ret, i)) = LUA_RESULT_COUNT
           /\ \A k \in 1..LUA_RESULT_COUNT :
                 /\ Results(ret, i)[k] \in {"result", "nil"} \X {i}
                 /\ k <= Len(ret) /\ ret[k] # "nil" => Results(ret, i)[k] = <<"result", i>>
  <1>1. \A k \in 1..8 : (IF k <= Len(ret) THEN ret[k] ELSE "nil") \in {"result", "nil"}
    OBVIOUS
  <1>2. Results(ret, i) = [k \in 1..8 |-> <<IF k <= Len(ret) THEN ret[k] ELSE "nil", i>>]
    BY DEF Results, LUA_RESULT_COUNT
  <1>3. \A k \in 1..8 : <<IF k <= Len(ret) THEN ret[k] ELSE "nil", i>> \in Slot
    BY <1>1 DEF Slot, Tags
  <1>4. Results(ret, i) \in Frame /\ Len(Results(ret, i)) = 8
    BY <1>2, <1>3 DEF Frame
  <1>5. ASSUME NEW k \in 1..8
        PROVE  /\ Results(ret, i)[k] \in {"result", "nil"} \X {i}
               /\ k <= Len(ret) /\ ret[k] # "nil" => Results(ret, i)[k] = <<"result", i>>
    <2>1. Results(ret, i)[k] = <<IF k <= Len(ret) THEN ret[k] ELSE "nil", i>>
      BY <1>2
    <2>2. k <= Len(ret) => ret[k] \in {"result", "nil"}
      OBVIOUS
    <2> QED
      BY <2>1, <2>2
  <1> QED
    BY <1>4, <1>5 DEF LUA_RESULT_COUNT

LEMMA EightResults ==
    ASSUME NEW ret \in Seq({"result", "nil"}), NEW i \in 0..MaxDepth
    PROVE  /\ Results(ret, i) \in Frame /\ Len(Results(ret, i)) = 8
           /\ \A k \in 1..8 :
                 /\ Results(ret, i)[k] \in {"result", "nil"} \X {i}
                 /\ k <= Len(ret) /\ ret[k] # "nil" => Results(ret, i)[k] = <<"result", i>>
  <1>1. LUA_RESULT_COUNT = 8
    BY DEF LUA_RESULT_COUNT
  <1> QED
    BY <1>1, ResultsFacts

LEMMA AfterCallbackFacts ==
    ASSUME NEW g \in Frame, Len(g) >= 1 + LUA_RESULT_COUNT, NEW f, f = AfterCallback(g)
    PROVE  /\ f \in Frame /\ Len(f) = Len(g) - (1 + LUA_RESULT_COUNT)
           /\ \A j \in 1..Len(f) : f[j] = g[j]
  <1> DEFINE e == Pop(g, 8)
  <1>0. Len(g) \in Nat /\ Len(g) >= 9
    BY DEF Frame, LUA_RESULT_COUNT
  <1>1. e \in Frame /\ Len(e) = Len(g) - 8 /\ \A k \in 1..(Len(g) - 8) : e[k] = g[k]
    <2>1. 8 \in 0..Len(g)
      BY <1>0
    <2> QED
      BY <2>1, PopFacts
  <1>2. f = Pop(e, 1)
    BY DEF AfterCallback, LUA_RESULT_COUNT
  <1> HIDE DEF e
  <1>3. 1 \in 0..Len(e) /\ Len(e) - 1 = Len(g) - 9
    BY <1>0, <1>1
  <1>4. f \in Frame /\ Len(f) = Len(g) - 9 /\ \A k \in 1..(Len(g) - 9) : f[k] = e[k]
    <2>1. /\ Pop(e, 1) \in Frame /\ Len(Pop(e, 1)) = Len(e) - 1
          /\ \A k \in 1..(Len(e) - 1) : Pop(e, 1)[k] = e[k]
      BY ONLY <1>1, <1>3, PopFacts
    <2> QED
      BY ONLY <1>2, <1>3, <2>1, ZenonT(30)
  <1> QED
    BY <1>0, <1>1, <1>4 DEF LUA_RESULT_COUNT

(* The slots in use, if the first m are arguments. *)
LEMMA UsedFacts ==
    ASSUME NEW f \in Frame, NEW m \in 0..Len(f), \A k \in 1..m : f[k][1] = "arg"
    PROVE  Used(f) \in Nat /\ Used(f) <= Len(f) - m
  <1> DEFINE S == {k \in DOMAIN f : f[k][1] = "arg"}
  <1>0. Len(f) \in Nat /\ DOMAIN f = 1..Len(f)
    BY DEF Frame
  <1>1. IsFiniteSet(1..Len(f)) /\ Cardinality(1..Len(f)) = Len(f)
    <2>1. PICK n \in Nat : n = Len(f)
      BY <1>0
    <2>2. IsFiniteSet(1..n) /\ Cardinality(1..n) = n
      BY FS_Interval
    <2> QED
      BY <2>1, <2>2
  <1>2. IsFiniteSet(1..m) /\ Cardinality(1..m) = m
    <2>1. m \in Nat
      BY <1>0
    <2> QED
      BY <2>1, FS_Interval
  <1>3. S \in SUBSET (1..Len(f))
    BY <1>0
  <1>4. IsFiniteSet(S) /\ Cardinality(S) <= Len(f)
    BY <1>1, <1>3, FS_Subset
  <1>5. 1..m \in SUBSET S
    BY <1>0
  <1>6. m <= Cardinality(S)
    BY <1>2, <1>4, <1>5, FS_Subset
  <1>7. Cardinality(S) \in Nat
    BY <1>4, FS_CardinalityType
  <1>8. Used(f) = Len(f) - Cardinality(S)
    BY DEF Used
  <1> HIDE DEF S
  <1> QED
    BY <1>0, <1>4, <1>6, <1>7, <1>8

-----------------------------------------------------------------------------
(* The invariant in the form in which the steps keep it. *)

StackTypes == ctl \in Seq(Activations) /\ Len(ctl) <= MaxDepth /\ stack \in Seq(Frame)
StackSound == StackTypes /\ Layout(ctl, stack) /\ Books(ctl)
PeakSound  == peak \in [slots : Nat, nested : BOOLEAN] /\ WithinMinStack
SeenSound  == seen \in [slots : SUBSET Slot, own : Slot] /\ ReadsOwn
HostSound  == /\ booted \in BOOLEAN /\ linked \in BOOLEAN /\ dead \in BOOLEAN
              /\ ~booted => ctl = <<>>
Sound == HostSound /\ StackSound /\ PeakSound /\ SeenSound

LEMMA SoundNow == EngineInv <=> ModulesTypeOK /\ Sound
  BY LayoutNow, BooksNow
     DEF EngineInv, TypeOK, Sound, HostSound, StackSound, StackTypes, PeakSound, SeenSound

LEMMA SoundNext == EngineInv' <=> ModulesTypeOK' /\ Sound'
  BY LayoutNext, BooksNext
     DEF EngineInv, TypeOK, Sound, HostSound, StackSound, StackTypes, PeakSound, SeenSound

LEMMA DepthFacts ==
    MaxDepth \in Nat \ {0} /\ MaxArgs \in Nat /\ \A ret \in Returns : ret \in Seq({"result", "nil"})
  BY BoundsAssumption

(* The frame that the newest activation works in. *)
LEMMA CurrentFacts ==
    ASSUME StackSound
    PROVE  /\ ctl \in Seq(Activations) /\ stack \in Seq(Frame) /\ stack # <<>>
           /\ Top \in Nat /\ Top = Len(ctl) /\ Top <= MaxDepth /\ (ctl = <<>> <=> Top = 0)
           /\ Current \in Frame /\ Current = stack[Len(stack)] /\ Len(stack) = FrameNo(ctl, Top)
           /\ Top = 0 => Len(Current) = 0
           /\ Top # 0 => /\ Top \in 1..Len(ctl) /\ ctl[Top] \in Activations
                         /\ Placed(ctl, Current, Top) /\ Holds(ctl[Top], Current, Top)
                         /\ Keeps(ctl[Top])
  <1>1. /\ ctl \in Seq(Activations) /\ stack \in Seq(Frame) /\ Len(ctl) <= MaxDepth
        /\ Layout(ctl, stack) /\ Books(ctl)
    BY DEF StackSound, StackTypes
  <1>2. Top = Len(ctl) /\ Top \in Nat /\ (ctl = <<>> <=> Top = 0)
    BY <1>1 DEF Top
  <1>3. Len(stack) = FrameNo(ctl, Top) /\ Len(stack) \in Nat \ {0}
    BY <1>1, <1>2, NativesFinite DEF Layout
  <1>4. stack # <<>>
    BY <1>1, <1>3
  <1>5. Current \in Frame /\ Current = stack[Len(stack)]
    BY <1>1, <1>4, FrontLast DEF Current
  <1>6. Top = 0 => Len(Current) = 0
    <2> SUFFICES ASSUME Top = 0 PROVE Len(Current) = 0
      OBVIOUS
    <2>1. stack = << <<>> >>
      BY <1>1, <1>2 DEF Layout
    <2>2. stack[Len(stack)] = <<>>
      BY <2>1
    <2> QED
      BY <1>5, <2>2
  <1>7. ASSUME Top # 0
        PROVE  /\ Top \in 1..Len(ctl) /\ ctl[Top] \in Activations
               /\ Placed(ctl, Current, Top) /\ Holds(ctl[Top], Current, Top) /\ Keeps(ctl[Top])
    <2>1. Top \in 1..Len(ctl) /\ ctl[Top] \in Activations /\ Top \in DOMAIN ctl
      BY <1>1, <1>2, <1>7
    <2>2. Placed(ctl, Current, Top) /\ Keeps(ctl[Top])
      BY <1>1, <1>3, <1>5, <2>1 DEF Layout, Books
    <2> QED
      BY <1>2, <2>1, <2>2 DEF Placed, Holds
  <1> QED
    BY <1>1, <1>2, <1>3, <1>4, <1>5, <1>6, <1>7

(* Where a call that is the i-th activation begins in its frame. *)
BaseOf(c, i) == IF i = 1 THEN 0 ELSE End(c[i - 1])

LEMMA BaseFacts ==
    ASSUME StackSound, NEW i \in 1..(Top + 1)
    PROVE  /\ BaseOf(ctl, i) \in Nat
           /\ i = Top + 1 => BaseOf(ctl, i) = Len(Current)
           /\ i \in 1..Top /\ ctl[i].pc # "native" => BaseOf(ctl, i) = ctl[i].top
  <1>1. /\ ctl \in Seq(Activations) /\ Top \in Nat /\ Top = Len(ctl) /\ Layout(ctl, stack)
        /\ Top = 0 => Len(Current) = 0
        /\ Top # 0 => Holds(ctl[Top], Current, Top)
    BY CurrentFacts DEF StackSound
  <1>2. i # 1 => i - 1 \in 1..Top /\ ctl[i - 1] \in Activations
    BY <1>1
  <1>3. BaseOf(ctl, i) \in Nat
    BY <1>2, OwnsFacts DEF BaseOf
  <1>4. i = Top + 1 => BaseOf(ctl, i) = Len(Current)
    <2>1. CASE i = 1
      BY <1>1, <2>1 DEF BaseOf
    <2>2. CASE i # 1
      BY <1>1, <2>2 DEF BaseOf, Holds
    <2> QED
      BY <2>1, <2>2
  <1>5. i \in 1..Top /\ ctl[i].pc # "native" => BaseOf(ctl, i) = ctl[i].top
    BY <1>1 DEF BaseOf, Layout, Placed
  <1> QED
    BY <1>3, <1>4, <1>5

LEMMA ClearArgs ==
    ASSUME StackSound, NEW i \in 1..(Top + 1), i = 1 \/ ctl[i - 1].pc = "native"
    PROVE  \E m \in 0..BaseOf(ctl, i) :
              /\ BaseOf(ctl, i) - m <= MaxArgs
              /\ \A k \in 1..m : stack[FrameNo(ctl, i - 1)][k][1] = "arg"
  <1>1. CASE i = 1
    <2>1. BaseOf(ctl, i) = 0 /\ 0 - 0 <= MaxArgs
      BY <1>1, DepthFacts DEF BaseOf
    <2> QED
      BY <2>1
  <1>2. CASE i # 1
    <2>1. /\ ctl \in Seq(Activations) /\ Top \in Nat /\ Top = Len(ctl) /\ Layout(ctl, stack)
          /\ Books(ctl)
      BY CurrentFacts DEF StackSound
    <2>2. PICK j \in 1..Top : j = i - 1
      BY <1>2, <2>1
    <2>3. j \in DOMAIN ctl /\ ctl[j] \in Activations /\ ctl[j].pc = "native"
      BY <1>2, <2>1, <2>2
    <2> DEFINE fr == stack[FrameNo(ctl, j)]
    <2>4. Placed(ctl, fr, j) /\ Keeps(ctl[j])
      BY <2>1, <2>3 DEF Layout, Books
    <2>5. /\ ctl[j].top = 0 /\ ctl[j].outs <= MaxArgs
          /\ \A k \in 1..Owns(ctl[j]) : fr[ctl[j].top + k] \in Kinds(ctl[j], k) \X {j}
      BY <2>3, <2>4 DEF Placed, Keeps
    <2>6. /\ ctl[j].outs \in Nat /\ ctl[j].count \in Nat
          /\ Owns(ctl[j]) = ctl[j].count + ctl[j].outs /\ End(ctl[j]) = ctl[j].top + Owns(ctl[j])
      BY <2>3, OwnsFacts
    <2>7. BaseOf(ctl, i) = ctl[j].count + ctl[j].outs
      BY <1>2, <2>2, <2>5, <2>6 DEF BaseOf
    <2>8. ASSUME NEW k \in 1..ctl[j].count PROVE fr[k][1] = "arg"
      <3>1. k \in Nat /\ k \in 1..Owns(ctl[j]) /\ ctl[j].top + k = k /\ k <= ctl[j].count
        BY <2>5, <2>6
      <3>2. Kinds(ctl[j], k) = {"arg"}
        BY <2>3, <3>1, KindsFacts
      <3>3. fr[k] \in {"arg"} \X {j}
        BY <2>5, <3>1, <3>2
      <3> QED
        BY <3>3
    <2> HIDE DEF fr
    <2>9. ctl[j].count \in 0..BaseOf(ctl, i) /\ BaseOf(ctl, i) - ctl[j].count <= MaxArgs
      BY <2>5, <2>6, <2>7, DepthFacts
    <2> QED
      BY <2>2, <2>8, <2>9 DEF fr
  <1> QED
    BY <1>1, <1>2

(* What a step uses above the arguments of its C function. *)
LEMMA PeakWithin ==
    ASSUME NEW u \in Nat, NEW i, Uses(u, i), MaxArgs <= 6 /\ u > LUA_MINSTACK => Nested(i)
    PROVE  PeakSound'
  <1>1. Nested(i) \in BOOLEAN
    BY DEF Nested
  <1>2. peak' = [slots |-> u, nested |-> Nested(i)]
    BY DEF Uses
  <1>3. peak' \in [slots : Nat, nested : BOOLEAN] /\ peak'.slots = u /\ peak'.nested = Nested(i)
    BY <1>1, <1>2
  <1>4. WithinMinStack'
    BY <1>3 DEF WithinMinStack, LUA_MINSTACK
  <1> QED
    BY <1>3, <1>4 DEF PeakSound

LEMMA PeakOfCall ==
    ASSUME StackSound, NEW i \in 1..(Top + 1), i \in 1..Top => ctl[i].pc # "native",
           NEW g \in Frame, Len(g) >= BaseOf(ctl, i),
           \A k \in 1..BaseOf(ctl, i) : g[k] = stack[FrameNo(ctl, i - 1)][k],
           NEW x \in Nat, MaxArgs <= 6 => Len(g) - BaseOf(ctl, i) + x <= 14,
           NEW u, u = Used(g) + x, Uses(u, i)
    PROVE  PeakSound'
  <1>0. Len(g) \in Nat /\ BaseOf(ctl, i) \in Nat /\ MaxArgs \in Nat /\ i \in Nat
    BY BaseFacts, DepthFacts, CurrentFacts DEF Frame
  <1>1. Used(g) \in Nat
    <2>1. 0 \in 0..Len(g) /\ \A k \in 1..0 : g[k][1] = "arg"
      BY <1>0
    <2> QED
      BY <2>1, UsedFacts
  <1>2. ASSUME ~Nested(i), MaxArgs <= 6
        PROVE  u <= 20
    <2>1. Top = Len(ctl) /\ DOMAIN ctl = 1..Top /\ Top \in Nat
      BY CurrentFacts, LenProperties
    <2>2. i = 1 \/ ctl[i - 1].pc = "native"
      BY <1>0, <1>2, <2>1 DEF Nested
    <2>3. PICK m \in 0..BaseOf(ctl, i) :
             /\ BaseOf(ctl, i) - m <= MaxArgs
             /\ \A k \in 1..m : stack[FrameNo(ctl, i - 1)][k][1] = "arg"
      BY <2>2, ClearArgs
    <2>4. m \in 0..Len(g) /\ \A k \in 1..m : k \in 1..BaseOf(ctl, i)
      BY <1>0, <2>3
    <2>5. \A k \in 1..m : g[k][1] = "arg"
      BY <2>3, <2>4
    <2>6. Used(g) <= Len(g) - m
      BY <2>4, <2>5, UsedFacts
    <2> QED
      BY <1>0, <1>1, <1>2, <2>3, <2>4, <2>6
  <1>3. u \in Nat /\ (MaxArgs <= 6 /\ u > LUA_MINSTACK => Nested(i))
    BY <1>1, <1>2 DEF LUA_MINSTACK
  <1> QED
    BY <1>3, PeakWithin

LEMMA PeakOfNative ==
    ASSUME StackSound, Top # 0, ctl[Top].pc = "native",
           NEW g \in Frame, Len(g) >= ctl[Top].count, \A k \in 1..ctl[Top].count : g[k] = Current[k],
           NEW x \in Nat, Len(g) - ctl[Top].count + x <= MaxArgs + 14,
           NEW u, u = Used(g) + x, Uses(u, Top)
    PROVE  PeakSound'
  <1>1. /\ ctl[Top] \in Activations /\ Placed(ctl, Current, Top) /\ Top \in Nat
    BY CurrentFacts
  <1>2. /\ ctl[Top].count \in Nat /\ ctl[Top].outs \in Nat
        /\ Owns(ctl[Top]) = ctl[Top].count + ctl[Top].outs
    BY <1>1, OwnsFacts
  <1>3. ASSUME NEW k \in 1..ctl[Top].count PROVE g[k][1] = "arg"
    <2>1. k \in 1..Owns(ctl[Top]) /\ k \in Nat /\ k <= ctl[Top].count /\ 0 + k = k
      BY <1>2
    <2>2. Kinds(ctl[Top], k) = {"arg"}
      BY <1>1, <2>1, KindsFacts
    <2>3. Current[k] \in {"arg"} \X {Top}
      BY <1>1, <2>1, <2>2 DEF Placed
    <2> QED
      BY <2>3
  <1>4. ctl[Top].count \in 0..Len(g) /\ Len(g) \in Nat /\ MaxArgs \in Nat
    BY <1>2, DepthFacts DEF Frame
  <1>5. Used(g) \in Nat /\ Used(g) <= Len(g) - ctl[Top].count
    BY <1>3, <1>4, UsedFacts
  <1>6. u \in Nat /\ (MaxArgs <= 6 => u <= LUA_MINSTACK)
    BY <1>2, <1>4, <1>5 DEF LUA_MINSTACK
  <1>7. MaxArgs <= 6 /\ u > LUA_MINSTACK => Nested(Top)
    BY <1>6 DEF LUA_MINSTACK
  <1> QED
    BY <1>6, <1>7, PeakWithin

(* What a step reads or hands on. *)
LEMMA SeenOwn ==
    ASSUME NEW S \in SUBSET Slot, NEW x \in Slot, S \subseteq {x}, Sees(S, x)
    PROVE  SeenSound' /\ booted' = booted /\ linked' = linked /\ dead' = dead
  BY DEF Sees, SeenSound, ReadsOwn, engine

LEMMA SeenNothing ==
    ASSUME SeenSound, Untouched
    PROVE  SeenSound' /\ booted' = booted /\ linked' = linked /\ dead' = dead
  <1>1. seen' \in [slots : SUBSET Slot, own : Slot] /\ seen'.slots = {}
    BY DEF Untouched, SeenSound
  <1> QED
    BY <1>1 DEF Untouched, SeenSound, ReadsOwn, engine

-----------------------------------------------------------------------------
(* Steps on the current frame. *)

LEMMA CallFrame ==
    ASSUME StackSound, NEW n \in Nat \ {0}, n = Top + 1 \/ (n = Top /\ ctl[Top].pc # "native")
    PROVE  /\ n \in 1..(Top + 1) /\ FrameNo(ctl, n - 1) = Len(stack)
           /\ stack[FrameNo(ctl, n - 1)] = Current
           /\ n \in 1..Top => ctl[n].pc # "native"
  <1>1. Top \in Nat /\ Len(stack) = FrameNo(ctl, Top) /\ Current = stack[Len(stack)]
    BY CurrentFacts
  <1>2. CASE n = Top + 1
    <2>1. n - 1 = Top /\ n \in 1..(Top + 1) /\ n \notin 1..Top
      BY <1>1, <1>2
    <2> QED
      BY <1>1, <2>1
  <1>3. CASE n = Top /\ ctl[Top].pc # "native"
    <2>1. n - 1 \in Nat /\ (n - 1) + 1 = Top /\ n \in 1..(Top + 1)
      BY <1>1, <1>3
    <2>2. FrameNo(ctl, Top) = FrameNo(ctl, n - 1)
      BY <1>3, <2>1, NextFrame
    <2> QED
      BY <1>1, <1>3, <2>1, <2>2
  <1> QED
    BY <1>2, <1>3

LEMMA OtherStack ==
    ASSUME stack \in Seq(Frame), stack # <<>>, NEW f \in Frame, stack' = WithFrame(f)
    PROVE  /\ stack' \in Seq(Frame) /\ Len(stack') = Len(stack) /\ stack'[Len(stack')] = f
           /\ \A g \in 1..(Len(stack') - 1) : stack'[g] = stack[g]
           /\ Last(stack') = f
  <1>1. stack' = Front(stack) \o <<f>>
    BY DEF WithFrame
  <1> DEFINE t == Front(stack) \o <<f>>
  <1>2. /\ t \in Seq(Frame) /\ Len(t) = Len(stack) /\ t[Len(t)] = f /\ Last(t) = f
        /\ \A g \in 1..(Len(t) - 1) : t[g] = stack[g]
    BY OtherFrame
  <1>3. stack' = t
    BY <1>1
  <1> HIDE DEF t
  <1> QED
    BY <1>2, <1>3

LEMMA TopCall ==
    ASSUME StackSound, NEW n \in Nat \ {0}, n <= MaxDepth,
           n = Top + 1 \/ (n = Top /\ ctl[Top].pc # "native"),
           ctl' \in Seq(Activations), AgreeBelow(ctl, ctl', n),
           NEW f \in Frame, stack' = WithFrame(f),
           ctl'[n].pc # "native", Keeps(ctl'[n]), ctl'[n].top = BaseOf(ctl, n),
           Holds(ctl'[n], f, n), \A k \in 1..ctl'[n].top : f[k] = Current[k]
    PROVE  StackSound'
  <1>1. /\ ctl \in Seq(Activations) /\ stack \in Seq(Frame) /\ stack # <<>>
        /\ Current = stack[Len(stack)] /\ Layout(ctl, stack) /\ Books(ctl)
    BY CurrentFacts DEF StackSound
  <1>2. /\ stack' \in Seq(Frame) /\ Len(stack') = Len(stack) /\ stack'[Len(stack')] = f
        /\ \A g \in 1..(Len(stack') - 1) : stack'[g] = stack[g]
    BY <1>1, OtherStack
  <1>3. FrameNo(ctl, n - 1) = Len(stack)
    BY CallFrame
  <1>4. CallOnTop(ctl, stack, ctl'[n], stack', n)
    BY <1>1, <1>2, <1>3 DEF CallOnTop, BaseOf
  <1>5. Layout(ctl', stack') /\ Books(ctl')
    BY <1>1, <1>2, <1>4, LayoutCall
  <1>6. Len(ctl') <= MaxDepth
    BY DEF AgreeBelow
  <1> QED
    BY <1>2, <1>5, <1>6 DEF StackSound, StackTypes

LEMMA TopPop ==
    ASSUME StackSound, NEW n \in 0..Top, FrameNo(ctl, n) = Len(stack),
           ctl' \in Seq(Activations), Len(ctl') = n, \A i \in 1..n : ctl'[i] = ctl[i],
           NEW f \in Frame, stack' = WithFrame(f), Len(f) = BaseOf(ctl, n + 1),
           \A k \in 1..Len(f) : f[k] = Current[k]
    PROVE  StackSound'
  <1>1. /\ ctl \in Seq(Activations) /\ stack \in Seq(Frame) /\ stack # <<>>
        /\ Current = stack[Len(stack)] /\ Layout(ctl, stack) /\ Books(ctl)
        /\ Top \in Nat /\ Top = Len(ctl) /\ Top <= MaxDepth
    BY CurrentFacts DEF StackSound
  <1>2. /\ stack' \in Seq(Frame) /\ Len(stack') = Len(stack) /\ stack'[Len(stack')] = f
        /\ \A g \in 1..(Len(stack') - 1) : stack'[g] = stack[g]
    BY <1>1, OtherStack
  <1>3. n + 1 = 1 <=> n = 0
    BY <1>1
  <1>4. Len(f) = IF n = 0 THEN 0 ELSE End(ctl[n])
    BY <1>1, <1>3 DEF BaseOf
  <1>5. Layout(ctl', stack') /\ Books(ctl')
    <2>1. /\ Len(ctl') <= Len(ctl) /\ \A i \in 1..Len(ctl') : ctl'[i] = ctl[i]
          /\ Len(stack') = FrameNo(ctl, Len(ctl'))
      BY <1>1, <1>2
    <2>2. /\ Len(stack'[Len(stack')]) = IF Len(ctl') = 0 THEN 0 ELSE End(ctl[Len(ctl')])
          /\ \A k \in 1..Len(stack'[Len(stack')]) : stack'[Len(stack')][k] = stack[Len(stack')][k]
      BY <1>1, <1>2, <1>4
    <2> QED
      BY <1>1, <1>2, <2>1, <2>2, LayoutPop
  <1>6. Len(ctl') <= MaxDepth
    BY <1>1, DepthFacts
  <1> QED
    BY <1>2, <1>5, <1>6 DEF StackSound, StackTypes

(* A frame that is put back as it was. *)
LEMMA SameFrame ==
    ASSUME StackSound, UNCHANGED ctl, NEW f \in Frame, stack' = WithFrame(f),
           Len(f) = Len(Current), \A k \in 1..Len(f) : f[k] = Current[k]
    PROVE  StackSound'
  <1>1. /\ ctl \in Seq(Activations) /\ Top \in Nat /\ Top = Len(ctl)
        /\ Len(stack) = FrameNo(ctl, Top)
    BY CurrentFacts
  <1>2. BaseOf(ctl, Top + 1) = Len(Current)
    <2>1. PICK i : i = Top + 1
      OBVIOUS
    <2>2. i \in 1..(Top + 1)
      BY <1>1, <2>1
    <2>3. i = Top + 1 => BaseOf(ctl, i) = Len(Current)
      BY ONLY StackSound, <2>2, BaseFacts
    <2> QED
      BY ONLY <2>1, <2>3
  <1>3. Top \in 0..Top
    BY <1>1
  <1> QED
    BY <1>1, <1>2, <1>3, TopPop

LEMMA AppendChain ==
    ASSUME StackSound, NEW a \in Activations, ctl' = Append(ctl, a)
    PROVE  /\ ctl' \in Seq(Activations) /\ Top + 1 \in Nat \ {0}
           /\ AgreeBelow(ctl, ctl', Top + 1) /\ ctl'[Top + 1] = a
  <1>1. ctl \in Seq(Activations) /\ Top \in Nat /\ Top = Len(ctl)
    BY CurrentFacts
  <1>2. /\ ctl' \in Seq(Activations) /\ Len(ctl') = Top + 1 /\ ctl'[Top + 1] = a
        /\ \A i \in 1..Top : ctl'[i] = ctl[i]
    BY <1>1
  <1>3. (Top + 1) - 1 = Top
    BY <1>1
  <1> QED
    BY <1>1, <1>2, <1>3 DEF AgreeBelow

LEMMA ReplaceChain ==
    ASSUME StackSound, Top # 0, NEW a \in Activations, ctl' = [ctl EXCEPT ![Top] = a]
    PROVE  /\ ctl' \in Seq(Activations) /\ Top \in Nat \ {0}
           /\ AgreeBelow(ctl, ctl', Top) /\ ctl'[Top] = a
  <1>1. ctl \in Seq(Activations) /\ Top \in Nat /\ Top = Len(ctl) /\ Top \in 1..Len(ctl)
    BY CurrentFacts
  <1>2. /\ ctl' \in Seq(Activations) /\ Len(ctl') = Top
        /\ \A i \in 1..Top : ctl'[i] = IF i = Top THEN a ELSE ctl[i]
    BY <1>1, ExceptSeq
  <1>3. \A i \in 1..(Top - 1) : i \in 1..Top /\ i # Top
    BY <1>1
  <1>4. \A i \in 1..(Top - 1) : ctl'[i] = ctl[i]
    BY <1>2, <1>3
  <1> QED
    BY <1>1, <1>2, <1>4 DEF AgreeBelow

LEMMA FrontChain ==
    ASSUME StackSound, Top # 0, ctl' = Front(ctl)
    PROVE  /\ ctl' \in Seq(Activations) /\ Len(ctl') = Top - 1 /\ Top - 1 \in 0..Top
           /\ \A i \in 1..(Top - 1) : ctl'[i] = ctl[i]
  <1>1. ctl \in Seq(Activations) /\ Top \in Nat /\ Top = Len(ctl)
    BY CurrentFacts
  <1>2. PICK m \in Nat : m = Top - 1
    BY <1>1
  <1>3. ctl' = SubSeq(ctl, 1, m)
    BY <1>1, <1>2 DEF Front
  <1>4. m <= Len(ctl) /\ Top - 1 \in 0..Top
    BY <1>1, <1>2
  <1>5. ctl' \in Seq(Activations) /\ Len(ctl') = m /\ \A i \in 1..m : ctl'[i] = ctl[i]
    BY <1>1, <1>3, <1>4
  <1> QED
    BY <1>2, <1>4, <1>5

LEMMA PeakCurrent ==
    ASSUME StackSound, NEW x \in 0..5, Uses(Used(Current) + x, Top)
    PROVE  PeakSound'
  <1>0. /\ Top \in Nat /\ Current \in Frame /\ Top <= MaxDepth /\ MaxArgs \in Nat /\ x \in Nat
        /\ Len(Current) \in Nat
    BY CurrentFacts, DepthFacts DEF Frame
  <1>1. CASE Top = 0
    <2>1. Len(Current) = 0 /\ 0 \in 0..Len(Current) /\ \A k \in 1..0 : Current[k][1] = "arg"
      BY <1>1, CurrentFacts
    <2>2. Used(Current) \in Nat /\ Used(Current) <= Len(Current) - 0
      BY <1>0, <2>1, UsedFacts
    <2>3. Used(Current) + x \in Nat /\ ~(Used(Current) + x > LUA_MINSTACK)
      BY <2>1, <2>2 DEF LUA_MINSTACK
    <2> QED
      BY <2>3, PeakWithin
  <1>2. CASE Top # 0
    <2>1. ctl[Top] \in Activations /\ Len(Current) = End(ctl[Top]) /\ Keeps(ctl[Top])
      BY <1>2, CurrentFacts DEF Holds
    <2>2. ctl[Top].outs <= MaxArgs + 2
      BY <1>0, <2>1 DEF Activations
    <2>3. CASE ctl[Top].pc = "native"
      <3>1. /\ ctl[Top].count \in Nat /\ ctl[Top].outs \in Nat /\ ctl[Top].top \in Nat
            /\ Len(Current) = ctl[Top].top + ctl[Top].count + ctl[Top].outs
        <4>1. PICK a \in Activations : a = ctl[Top]
          BY <2>1
        <4>2. Len(Current) = End(a) /\ a.pc = "native"
          BY <2>1, <2>3, <4>1
        <4>3. /\ a.count \in Nat /\ a.outs \in Nat /\ a.top \in Nat
              /\ Len(Current) = a.top + a.count + a.outs
          <5>1. /\ a.pc = "native" => Owns(a) = a.count + a.outs
                /\ End(a) = a.top + Owns(a)
                /\ a.top \in Nat /\ a.outs \in Nat /\ a.count \in Nat
            BY ONLY <4>1, OwnsFacts
          <5> QED
            BY ONLY <4>2, <5>1
        <4> QED
          BY ONLY <4>1, <4>3
      <3>2. ctl[Top].top = 0
        BY <1>2, <2>3, CurrentFacts DEF Placed
      <3>3. /\ Len(Current) >= ctl[Top].count /\ Len(Current) - ctl[Top].count + x <= MaxArgs + 14
        BY <1>0, <2>2, <3>1, <3>2, SMTT(30)
      <3> QED
        BY <1>0, <1>2, <2>3, <3>3, PeakOfNative
    <2>4. CASE ctl[Top].pc # "native"
      <3>1. /\ Owns(ctl[Top]) \in Nat /\ ctl[Top].top \in Nat
            /\ Len(Current) = ctl[Top].top + Owns(ctl[Top])
            /\ Owns(ctl[Top]) = ctl[Top].outs \/ Owns(ctl[Top]) <= 9
        <4>1. /\ ctl[Top].pc = "output" => Owns(ctl[Top]) = ctl[Top].outs
              /\ ctl[Top].pc = "run" => Owns(ctl[Top]) = 1
              /\ ctl[Top].pc = "callback" => Owns(ctl[Top]) = 1 + LUA_RESULT_COUNT
              /\ Owns(ctl[Top]) \in Nat /\ End(ctl[Top]) = ctl[Top].top + Owns(ctl[Top])
              /\ ctl[Top].top \in Nat
              /\ ctl[Top].pc \in {"output", "run", "callback", "native"}
          BY <2>1, OwnsFacts
        <4> QED
          BY <2>1, <2>4, <4>1 DEF LUA_RESULT_COUNT
      <3>2. /\ Top \in Nat \ {0} /\ Top \in 1..(Top + 1) /\ stack[FrameNo(ctl, Top - 1)] = Current
            /\ Top \in 1..Top
        BY <1>0, <1>2, <2>4, CallFrame
      <3>3. BaseOf(ctl, Top) = ctl[Top].top
        BY <2>4, <3>2, BaseFacts
      <3>4. Len(Current) >= BaseOf(ctl, Top)
        BY <3>1, <3>3
      <3>5. MaxArgs <= 6 => Len(Current) - BaseOf(ctl, Top) + x <= 14
        BY <1>0, <2>2, <3>1, <3>3
      <3>6. \A k \in 1..BaseOf(ctl, Top) : Current[k] = stack[FrameNo(ctl, Top - 1)][k]
        BY <3>2
      <3> QED
        BY <1>0, <2>4, <3>2, <3>4, <3>5, <3>6, PeakOfCall
    <2> QED
      BY <2>3, <2>4
  <1> QED
    BY <1>1, <1>2

-----------------------------------------------------------------------------
(* The actions. *)

LEMMA HostKept ==
    ASSUME HostSound, booted' = booted, linked' = linked, dead' = dead, booted
    PROVE  HostSound'
  BY DEF HostSound

LEMMA InitializeStep ==
    ASSUME Sound, NEW ok \in BOOLEAN, Initialize(ok)
    PROVE  Sound'
  <1>0. HostSound /\ StackSound /\ SeenSound
    BY DEF Sound
  <1>1. /\ booted' = TRUE /\ linked' = ok /\ UNCHANGED <<dead, ctl, seen>>
        /\ stack' = WithFrame(ExecScriptFile(Current, ok)) /\ Uses(LUA_RESULT_COUNT, 0)
    BY DEF Initialize
  <1>2. Current \in Frame /\ 0 \in 0..MaxDepth /\ Len(Current) \in Nat
    BY <1>0, CurrentFacts, DepthFacts DEF Frame
  <1>3. /\ ExecScriptFile(Current, ok) \in Frame
        /\ Len(ExecScriptFile(Current, ok)) = Len(Current)
        /\ \A k \in 1..Len(Current) : ExecScriptFile(Current, ok)[k] = Current[k]
    <2>1. CASE ok
      <3> DEFINE r == Results(<<"result">>, 0)
      <3> DEFINE f == Current \o r
      <3>0. <<"result">> \in Seq({"result", "nil"})
        OBVIOUS
      <3>1. r \in Frame /\ Len(r) = 8
        BY <1>2, <3>0, EightResults
      <3> HIDE DEF r
      <3>2. f \in Frame /\ Len(f) = Len(Current) + 8 /\ \A k \in 1..Len(Current) : f[k] = Current[k]
        <4>1. /\ Current \o r \in Frame /\ Len(Current \o r) = Len(Current) + Len(r)
              /\ \A k \in 1..Len(Current) : (Current \o r)[k] = Current[k]
          BY <1>2, <3>1, JoinFacts
        <4> QED
          BY <3>1, <4>1
      <3> HIDE DEF f
      <3>3. 8 \in 0..Len(f) /\ Len(f) - 8 = Len(Current)
        BY <1>2, <3>2
      <3>4. ExecScriptFile(Current, ok) = Pop(f, 8)
        BY <2>1 DEF ExecScriptFile, LUA_RESULT_COUNT, f, r
      <3> QED
        BY <3>2, <3>3, <3>4, PopFacts
    <2>2. CASE ~ok
      <3> DEFINE f == Append(Current, <<"message", 0>>)
      <3>1. <<"message", 0>> \in Slot
        BY <1>2, SlotsFacts DEF Tags
      <3>2. f \in Frame /\ Len(f) = Len(Current) + 1 /\ \A k \in 1..Len(Current) : f[k] = Current[k]
        BY <1>2, <3>1, PushFacts
      <3> HIDE DEF f
      <3>3. 1 \in 0..Len(f) /\ Len(f) - 1 = Len(Current)
        BY <1>2, <3>2
      <3>4. ExecScriptFile(Current, ok) = Pop(f, 1)
        BY <2>2 DEF ExecScriptFile, f
      <3> QED
        BY <3>2, <3>3, <3>4, PopFacts
    <2> QED
      BY <2>1, <2>2
  <1>4. StackSound'
    BY <1>0, <1>1, <1>3, SameFrame
  <1>5. PeakSound'
    <2>1. Uses(8, 0)
      BY <1>1 DEF LUA_RESULT_COUNT
    <2>2. ~(8 > LUA_MINSTACK)
      BY DEF LUA_MINSTACK
    <2> QED
      BY <2>1, <2>2, PeakWithin
  <1>6. SeenSound' /\ HostSound'
    BY <1>0, <1>1 DEF SeenSound, ReadsOwn, HostSound
  <1> QED
    BY <1>4, <1>5, <1>6 DEF Sound

LEMMA RegModuleFuncStep ==
    ASSUME Sound, RegModuleFunc
    PROVE  Sound'
  <1>1. /\ HostSound /\ StackSound /\ SeenSound /\ booted
        /\ Uses(Used(Current) + 5, Top) /\ Untouched /\ UNCHANGED <<ctl, stack>>
    BY DEF Sound, RegModuleFunc, InCpp, Alive
  <1>2. PeakSound'
    BY <1>1, PeakCurrent
  <1>3. SeenSound' /\ HostSound'
    BY <1>1, SeenNothing, HostKept
  <1>4. StackSound'
    BY <1>1 DEF StackSound, StackTypes
  <1> QED
    BY <1>2, <1>3, <1>4 DEF Sound

LEMMA CallScriptFuncStep ==
    ASSUME Sound, CallScriptFunc
    PROVE  Sound'
  <1> DEFINE n == Top + 1
  <1> DEFINE f == Current \o Slots("in", n, 2)
  <1>1. /\ HostSound /\ StackSound /\ SeenSound /\ booted /\ Top < MaxDepth
        /\ ctl' = Append(ctl, Caller) /\ stack' = WithFrame(f)
        /\ Uses(Used(Last(stack')), n) /\ Untouched
    BY DEF Sound, CallScriptFunc, InCpp, Alive, Caller
  <1>2. /\ Top \in Nat /\ n \in Nat \ {0} /\ n <= MaxDepth /\ n \in 0..MaxDepth /\ Current \in Frame
        /\ Len(Current) \in Nat /\ MaxArgs \in Nat /\ stack \in Seq(Frame) /\ stack # <<>>
    BY <1>1, CurrentFacts, DepthFacts DEF Frame
  <1>3. Caller \in Activations
    BY <1>2 DEF Caller, Activations, MostRead, LUA_RESULT_COUNT
  <1>4. /\ Caller.pc = "output" /\ Caller.top = Len(Current) /\ Caller.outs = 2
    BY DEF Caller
  <1>5. Owns(Caller) = 2 /\ End(Caller) = Len(Current) + 2
    BY <1>3, <1>4, OwnsFacts
  <1>6. /\ Slots("in", n, 2) \in Frame /\ Len(Slots("in", n, 2)) = 2
        /\ \A k \in 1..2 : Slots("in", n, 2)[k] = <<"in", n>>
    <2>1. "in" \in Tags /\ 2 \in Nat
      BY DEF Tags
    <2> QED
      BY <1>2, <2>1, SlotsFacts
  <1>7. /\ f \in Frame /\ Len(f) = Len(Current) + 2
        /\ \A k \in 1..Len(Current) : f[k] = Current[k]
        /\ \A k \in 1..2 : f[Len(Current) + k] = <<"in", n>>
    <2> DEFINE g == Slots("in", n, 2)
    <2>1. /\ Current \o g \in Frame /\ Len(Current \o g) = Len(Current) + Len(g)
          /\ \A k \in 1..Len(Current) : (Current \o g)[k] = Current[k]
          /\ \A k \in 1..Len(g) : (Current \o g)[Len(Current) + k] = g[k]
      BY <1>2, <1>6, JoinFacts
    <2> QED
      BY <1>6, <2>1
  <1> HIDE DEF f
  <1>8. Holds(Caller, f, n)
    <2>1. \A k \in 1..2 : Kinds(Caller, k) = {"in"}
      BY <1>3, <1>4, KindsFacts
    <2>2. ASSUME NEW k \in 1..2 PROVE f[Caller.top + k] \in Kinds(Caller, k) \X {n}
      <3>1. f[Len(Current) + k] = <<"in", n>> /\ Kinds(Caller, k) = {"in"}
        BY <1>7, <2>1
      <3> QED
        BY <1>4, <3>1
    <2> QED
      BY <1>5, <1>7, <2>2 DEF Holds
  <1>9. BaseOf(ctl, n) = Len(Current) /\ n \in 1..(Top + 1) /\ n \notin 1..Top
    BY <1>1, <1>2, BaseFacts
  <1>10. StackSound'
    <2>1. /\ ctl' \in Seq(Activations) /\ AgreeBelow(ctl, ctl', n) /\ ctl'[n] = Caller
      BY <1>1, <1>3, AppendChain
    <2>2. ctl'[n].pc # "native" /\ Keeps(ctl'[n]) /\ ctl'[n].top = BaseOf(ctl, n)
      BY <1>4, <1>9, <2>1 DEF Keeps
    <2>3. Holds(ctl'[n], f, n) /\ \A k \in 1..ctl'[n].top : f[k] = Current[k]
      BY <1>4, <1>7, <1>8, <2>1
    <2> HIDE DEF n
    <2> QED
      BY <1>1, <1>2, <1>7, <2>1, <2>2, <2>3, TopCall DEF n
  <1>11. PeakSound'
    <2>1. Last(stack') = f
      BY <1>1, <1>2, <1>7, OtherStack
    <2>2. stack[FrameNo(ctl, n - 1)] = Current
      BY <1>1, <1>2, CallFrame
    <2>3. Used(f) \in Nat
      <3>1. 0 \in 0..Len(f) /\ \A k \in 1..0 : f[k][1] = "arg"
        BY <1>2, <1>7
      <3> QED
        BY <1>7, <3>1, UsedFacts
    <2>4. Used(f) = Used(f) + 0 /\ Uses(Used(f), n)
      BY <1>1, <2>1, <2>3
    <2>5. Len(f) >= BaseOf(ctl, n) /\ Len(f) - BaseOf(ctl, n) + 0 <= 14
      BY <1>2, <1>7, <1>9
    <2>6. \A k \in 1..BaseOf(ctl, n) : f[k] = stack[FrameNo(ctl, n - 1)][k]
      BY <1>7, <1>9, <2>2
    <2> HIDE DEF n
    <2> QED
      BY <1>1, <1>7, <1>9, <2>4, <2>5, <2>6, PeakOfCall
  <1>12. SeenSound' /\ HostSound'
    BY <1>1, SeenNothing, HostKept
  <1> QED
    BY <1>10, <1>11, <1>12 DEF Sound

LEMMA PeakTop ==
    ASSUME StackSound, NEW n \in Nat \ {0}, n = Top + 1 \/ (n = Top /\ ctl[Top].pc # "native"),
           NEW g \in Frame, Len(g) >= BaseOf(ctl, n), \A k \in 1..BaseOf(ctl, n) : g[k] = Current[k],
           NEW x \in Nat, MaxArgs <= 6 => Len(g) - BaseOf(ctl, n) + x <= 14,
           Uses(Used(g) + x, n) \/ (x = 0 /\ Uses(Used(g), n))
    PROVE  PeakSound'
  <1>1. /\ n \in 1..(Top + 1) /\ stack[FrameNo(ctl, n - 1)] = Current
        /\ n \in 1..Top => ctl[n].pc # "native"
    BY CallFrame
  <1>2. \A k \in 1..BaseOf(ctl, n) : g[k] = stack[FrameNo(ctl, n - 1)][k]
    BY <1>1
  <1>3. Used(g) \in Nat
    <2>1. 0 \in 0..Len(g) /\ \A k \in 1..0 : g[k][1] = "arg"
      BY DEF Frame
    <2> QED
      BY <2>1, UsedFacts
  <1>4. Uses(Used(g) + x, n)
    <2>1. CASE x = 0 /\ Uses(Used(g), n)
      <3>1. Used(g) + x = Used(g)
        BY <1>3, <2>1
      <3> QED
        BY <2>1, <3>1
    <2> QED
      BY <2>1
  <1> QED
    BY <1>1, <1>2, <1>4, PeakOfCall

(* A call that is being written: what it has put on the stack. *)
LEMMA OutputFacts ==
    ASSUME StackSound, ctl # <<>>, ctl[Top].pc = "output"
    PROVE  /\ Top \in Nat \ {0} /\ Top <= MaxDepth /\ Top \in 0..MaxDepth
           /\ Current \in Frame /\ stack \in Seq(Frame) /\ stack # <<>>
           /\ ctl[Top] \in Activations /\ ctl[Top].top \in Nat /\ MaxArgs \in Nat
           /\ ctl[Top].outs \in 0..(MaxArgs + 2) /\ ctl[Top].outs \in Nat
           /\ Len(Current) = ctl[Top].top + ctl[Top].outs
           /\ BaseOf(ctl, Top) = ctl[Top].top
           /\ \A k \in 1..ctl[Top].outs : Current[ctl[Top].top + k] = <<"in", Top>>
  <1>1. /\ Top \in Nat \ {0} /\ Top <= MaxDepth /\ Current \in Frame
        /\ stack \in Seq(Frame) /\ stack # <<>>
        /\ ctl[Top] \in Activations /\ Holds(ctl[Top], Current, Top)
    BY CurrentFacts
  <1>2. MaxArgs \in Nat /\ Top \in 0..MaxDepth
    BY <1>1, DepthFacts
  <1>3. ctl[Top].outs \in 0..(MaxArgs + 2)
    BY <1>1 DEF Activations
  <1>4. /\ ctl[Top].top \in Nat /\ ctl[Top].outs \in Nat /\ Owns(ctl[Top]) = ctl[Top].outs
        /\ End(ctl[Top]) = ctl[Top].top + Owns(ctl[Top])
    BY <1>1, OwnsFacts
  <1>5. Len(Current) = ctl[Top].top + ctl[Top].outs
    BY <1>1, <1>4 DEF Holds
  <1>6. BaseOf(ctl, Top) = ctl[Top].top
    <2>1. Top \in 1..(Top + 1) /\ Top \in 1..Top
      BY <1>1
    <2> QED
      BY <2>1, BaseFacts
  <1>7. ASSUME NEW k \in 1..ctl[Top].outs PROVE Current[ctl[Top].top + k] = <<"in", Top>>
    <2>1. k \in Nat /\ k \in 1..Owns(ctl[Top])
      BY <1>4
    <2>2. Kinds(ctl[Top], k) = {"in"}
      BY <1>1, <2>1, KindsFacts
    <2>3. Current[ctl[Top].top + k] \in {"in"} \X {Top}
      BY <1>1, <2>1, <2>2 DEF Holds
    <2> QED
      BY <2>3
  <1> QED
    BY <1>1, <1>2, <1>3, <1>4, <1>5, <1>6, <1>7

LEMMA WriteArgStep ==
    ASSUME Sound, WriteArg
    PROVE  Sound'
  <1> DEFINE a == [ctl[Top] EXCEPT !.outs = @ + 1]
  <1> DEFINE f == Append(Current, <<"in", Top>>)
  <1>1. /\ HostSound /\ StackSound /\ SeenSound /\ booted
        /\ ctl # <<>> /\ ctl[Top].pc = "output" /\ ctl[Top].outs < MaxArgs + 2
        /\ ctl' = [ctl EXCEPT ![Top] = a] /\ stack' = WithFrame(f)
        /\ Uses(Used(Last(stack')) + 1, Top) /\ Untouched
    BY DEF Sound, WriteArg, InCpp, Alive
  <1>2. /\ Top \in Nat \ {0} /\ Top <= MaxDepth /\ Top \in 0..MaxDepth
        /\ Current \in Frame /\ stack \in Seq(Frame) /\ stack # <<>>
        /\ ctl[Top] \in Activations /\ ctl[Top].top \in Nat /\ MaxArgs \in Nat
        /\ ctl[Top].outs \in 0..(MaxArgs + 2) /\ ctl[Top].outs \in Nat
        /\ Len(Current) = ctl[Top].top + ctl[Top].outs
        /\ BaseOf(ctl, Top) = ctl[Top].top
        /\ \A k \in 1..ctl[Top].outs : Current[ctl[Top].top + k] = <<"in", Top>>
    BY <1>1, OutputFacts
  <1>3. /\ a.pc = "output" /\ a.top = ctl[Top].top /\ a.outs = ctl[Top].outs + 1
        /\ a \in Activations
    <2>1. ctl[Top].outs + 1 \in 0..(MaxArgs + 2)
      BY <1>1, <1>2
    <2> QED
      BY <1>1, <1>2, <2>1 DEF Activations
  <1> HIDE DEF a
  <1>4. <<"in", Top>> \in Slot
    BY <1>2 DEF Slot, Tags
  <1>5. /\ f \in Frame /\ Len(f) = Len(Current) + 1
        /\ \A k \in 1..Len(Current) : f[k] = Current[k]
        /\ f[Len(Current) + 1] = <<"in", Top>>
    BY <1>2, <1>4, PushFacts
  <1> HIDE DEF f
  <1>6. Owns(a) = ctl[Top].outs + 1 /\ End(a) = Len(f)
    <2>1. Owns(a) = a.outs /\ End(a) = a.top + Owns(a)
      BY <1>3, OwnsFacts
    <2> QED
      BY <1>2, <1>3, <1>5, <2>1
  <1>7. Holds(a, f, Top)
    <2>1. ASSUME NEW k \in 1..Owns(a) PROVE f[a.top + k] \in Kinds(a, k) \X {Top}
      <3>0. k \in Nat
        BY <1>2, <1>6
      <3>1. Kinds(a, k) = {"in"}
        BY <1>3, <3>0, KindsFacts
      <3>2. CASE k = ctl[Top].outs + 1
        <4>1. a.top + k = Len(Current) + 1
          BY <1>2, <1>3, <3>2, SMTT(30)
        <4>2. f[a.top + k] = <<"in", Top>>
          BY <1>5, <4>1
        <4> QED
          BY <3>1, <4>2
      <3>3. CASE k # ctl[Top].outs + 1
        <4>1. /\ k \in 1..ctl[Top].outs /\ a.top + k = ctl[Top].top + k
              /\ a.top + k \in 1..Len(Current)
          <5>1. k \in 1..ctl[Top].outs
            BY <1>2, <1>6, <3>0, <3>3
          <5>2. ctl[Top].top + k \in 1..Len(Current)
            BY <1>2, <5>1
          <5> QED
            BY <1>3, <5>1, <5>2
        <4>2. f[a.top + k] = <<"in", Top>>
          BY <1>2, <1>5, <4>1
        <4> QED
          BY <3>1, <4>2
      <3> QED
        BY <3>2, <3>3
    <2> QED
      BY <1>6, <2>1 DEF Holds
  <1>8. StackSound'
    <2>1. ctl' \in Seq(Activations) /\ AgreeBelow(ctl, ctl', Top) /\ ctl'[Top] = a
      BY <1>1, <1>2, <1>3, ReplaceChain
    <2>2. /\ ctl'[Top].pc # "native" /\ Keeps(ctl'[Top]) /\ ctl'[Top].top = BaseOf(ctl, Top)
          /\ Holds(ctl'[Top], f, Top)
      BY <1>2, <1>3, <1>7, <2>1 DEF Keeps
    <2>3. \A k \in 1..ctl'[Top].top : f[k] = Current[k]
      <3>1. \A k \in 1..ctl[Top].top : k \in 1..Len(Current)
        BY <1>2
      <3> QED
        BY <1>3, <1>5, <2>1, <3>1
    <2>4. Top = Top /\ ctl[Top].pc # "native"
      BY <1>1
    <2> QED
      BY <1>1, <1>2, <1>5, <2>1, <2>2, <2>3, <2>4, TopCall
  <1>9. PeakSound'
    <2>1. Last(stack') = f
      BY <1>1, <1>2, <1>5, OtherStack
    <2>2. Uses(Used(f) + 1, Top) /\ ctl[Top].pc # "native"
      BY <1>1, <2>1
    <2>3. /\ Len(f) >= BaseOf(ctl, Top) /\ \A k \in 1..BaseOf(ctl, Top) : f[k] = Current[k]
          /\ MaxArgs <= 6 => Len(f) - BaseOf(ctl, Top) + 1 <= 14
      <3>1. Len(f) = BaseOf(ctl, Top) + ctl[Top].outs + 1
        BY <1>2, <1>5
      <3>2. \A k \in 1..BaseOf(ctl, Top) : k \in 1..Len(Current)
        BY <1>2
      <3>3. \A k \in 1..BaseOf(ctl, Top) : f[k] = Current[k]
        BY <1>5, <3>2
      <3>4. BaseOf(ctl, Top) \in Nat /\ ctl[Top].outs <= MaxArgs + 2
        BY <1>2
      <3>5. Len(f) >= BaseOf(ctl, Top) /\ (MaxArgs <= 6 => Len(f) - BaseOf(ctl, Top) + 1 <= 14)
        BY <1>2, <3>1, <3>4, SMTT(30)
      <3> QED
        BY <3>3, <3>5
    <2> QED
      BY <1>1, <1>2, <1>5, <2>2, <2>3, PeakTop
  <1>10. SeenSound' /\ HostSound'
    BY <1>1, SeenNothing, HostKept
  <1> QED
    BY <1>8, <1>9, <1>10 DEF Sound

LEMMA DeadStep ==
    ASSUME Sound, dead' = TRUE, UNCHANGED <<engine, ctl, stack, peak, seen>>
    PROVE  Sound'
  <1>1. HostSound' /\ SeenSound' /\ PeakSound'
    BY DEF Sound, HostSound, SeenSound, ReadsOwn, PeakSound, WithinMinStack, engine
  <1>2. StackSound'
    BY DEF Sound, StackSound, StackTypes
  <1> QED
    BY <1>1, <1>2 DEF Sound

(* ExecFunction on a frame f of b slots and argc arguments above them: the *)
(* frame before lua_pcall and under the running function.                  *)
Pcalls(f, b, argc, i, g, c) ==
    /\ f \in Frame /\ b \in Nat /\ argc \in Nat /\ Len(f) = b + argc /\ i \in 0..MaxDepth
    /\ g = Guarded(f, argc, i) /\ c = Called(g, argc)

AllAbove(f, b, argc, y) == \A k \in 1..argc : f[b + k] = y

LEMMA PcallFacts ==
    ASSUME NEW f, NEW argc, NEW b, NEW i, NEW g, NEW c, Pcalls(f, b, argc, i, g, c)
    PROVE  /\ g \in Frame /\ Len(g) = b + argc + 2 /\ \A j \in 1..b : g[j] = f[j]
           /\ \A y : AllAbove(f, b, argc, y) => TopN(g, argc) \subseteq {y}
           /\ c \in Frame /\ Len(c) = b + 1 /\ \A j \in 1..b : c[j] = f[j]
           /\ c[b + 1] = Handler(i)
  <1>0. /\ f \in Frame /\ b \in Nat /\ argc \in Nat /\ Len(f) = b + argc /\ i \in 0..MaxDepth
        /\ g = Guarded(f, argc, i) /\ c = Called(g, argc)
    BY DEF Pcalls
  <1>1. f \in Frame /\ i \in 0..MaxDepth /\ argc \in 0..Len(f) /\ b = Len(f) - argc
    BY <1>0
  <1>2. /\ Guarded(f, argc, i) \in Frame /\ Len(Guarded(f, argc, i)) = Len(f) + 2
        /\ \A j \in 1..b : Guarded(f, argc, i)[j] = f[j]
        /\ \A j \in (b + 3)..(Len(f) + 2) : Guarded(f, argc, i)[j] = f[j - 2]
    BY <1>1, GuardedFacts, ZenonT(30)
  <1>20. Guarded(f, argc, i)[(Len(f) - argc) + 1] = Handler(i)
    BY <1>1, GuardedFacts
  <1>21. Guarded(f, argc, i)[b + 1] = Handler(i)
    BY <1>1, <1>20
  <1>3. /\ g \in Frame /\ Len(g) = Len(f) + 2
        /\ \A j \in 1..b : g[j] = f[j]
        /\ g[b + 1] = Handler(i)
        /\ \A j \in (b + 3)..(Len(f) + 2) : g[j] = f[j - 2]
    BY <1>0, <1>2, <1>21
  <1>4. Len(g) = b + argc + 2
    BY <1>0, <1>3
  <1>5. argc + 1 \in 0..Len(g) /\ Len(g) - (argc + 1) = b + 1 /\ c = Pop(g, argc + 1)
    BY <1>0, <1>4 DEF Called
  <1>6. c \in Frame /\ Len(c) = b + 1 /\ \A j \in 1..(b + 1) : c[j] = g[j]
    <2>1. /\ Pop(g, argc + 1) \in Frame /\ Len(Pop(g, argc + 1)) = Len(g) - (argc + 1)
          /\ \A k \in 1..(Len(g) - (argc + 1)) : Pop(g, argc + 1)[k] = g[k]
      BY <1>3, <1>5, PopFacts
    <2> QED
      BY <1>5, <2>1
  <1>7. ASSUME NEW y, AllAbove(f, b, argc, y), NEW x \in TopN(g, argc) PROVE x = y
    <2>1. PICK k \in (Len(g) - argc + 1)..Len(g) : x = g[k]
      BY <1>7 DEF TopN
    <2>2. k \in (b + 3)..(b + argc + 2)
      BY <1>0, <1>4, <2>1
    <2>3. PICK j \in 1..argc : k - 2 = b + j
      <3>1. k - 2 - b \in 1..argc /\ k - 2 = b + (k - 2 - b)
        BY <1>0, <2>2
      <3> QED
        BY <3>1
    <2>4. g[k] = f[k - 2]
      BY <1>0, <1>3, <2>2
    <2> QED
      BY <1>7, <2>1, <2>3, <2>4 DEF AllAbove
  <1>8. \A j \in 1..b : c[j] = f[j]
    <2>1. \A j \in 1..b : j \in 1..(b + 1)
      BY <1>0
    <2> QED
      BY <1>3, <1>6, <2>1
  <1>9. c[b + 1] = Handler(i)
    BY <1>0, <1>3, <1>6
  <1> QED
    BY <1>3, <1>4, <1>6, <1>7, <1>8, <1>9

LEMMA CallStep ==
    ASSUME Sound, booted, ctl # <<>>, ctl[Top].pc = "output", NEW m \in Scripts, NEW fun \in Functions,
           Call(m, fun)
    PROVE  Sound'
  <1>1. HostSound /\ StackSound /\ SeenSound
    BY DEF Sound
  <1>2. /\ Top \in Nat \ {0} /\ Top <= MaxDepth /\ Top \in 0..MaxDepth
        /\ Current \in Frame /\ stack \in Seq(Frame) /\ stack # <<>>
        /\ ctl[Top] \in Activations /\ ctl[Top].top \in Nat /\ MaxArgs \in Nat
        /\ ctl[Top].outs \in 0..(MaxArgs + 2) /\ ctl[Top].outs \in Nat
        /\ Len(Current) = ctl[Top].top + ctl[Top].outs
        /\ BaseOf(ctl, Top) = ctl[Top].top
        /\ \A k \in 1..ctl[Top].outs : Current[ctl[Top].top + k] = <<"in", Top>>
    BY <1>1, OutputFacts
  <1>3. PICK b \in Nat, argc \in Nat : b = ctl[Top].top /\ argc = ctl[Top].outs
    BY <1>2
  <1>4. PICK g : g = Guarded(Current, argc, Top)
    OBVIOUS
  <1>5. PICK c : c = Called(g, argc)
    OBVIOUS
  <1>6. /\ Finds(m, fun) => /\ ctl' = [ctl EXCEPT ![Top] =
                                  [ctl[Top] EXCEPT !.pc = "run", !.base = Len(c)]]
                            /\ stack' = WithFrame(c)
        /\ ~Finds(m, fun) => /\ ctl' = Front(ctl)
                             /\ stack' = WithFrame(AfterError(Append(c, <<"message", Top>>)))
        /\ Uses(Used(g), Top) /\ Sees(TopN(g, argc), <<"in", Top>>)
    BY <1>3, <1>4, <1>5 DEF Call
  <1>7. /\ argc <= MaxArgs + 2 /\ Len(Current) = b + argc /\ BaseOf(ctl, Top) = b
        /\ \A k \in 1..argc : Current[b + k] = <<"in", Top>>
    BY <1>2, <1>3
  <1>8. /\ g \in Frame /\ Len(g) = b + argc + 2 /\ \A j \in 1..b : g[j] = Current[j]
        /\ TopN(g, argc) \subseteq {<<"in", Top>>}
        /\ c \in Frame /\ Len(c) = b + 1 /\ \A j \in 1..b : c[j] = Current[j]
        /\ c[b + 1] = Handler(Top)
    <2>1. Pcalls(Current, b, argc, Top, g, c)
      BY <1>2, <1>4, <1>5, <1>7 DEF Pcalls
    <2>2. g \in Frame /\ Len(g) = b + argc + 2 /\ \A j \in 1..b : g[j] = Current[j]
      BY <2>1, PcallFacts
    <2>3. TopN(g, argc) \subseteq {<<"in", Top>>}
      <3>1. AllAbove(Current, b, argc, <<"in", Top>>)
        BY <1>7 DEF AllAbove
      <3> QED
        BY <2>1, <3>1, PcallFacts
    <2>4. c \in Frame /\ Len(c) = b + 1 /\ \A j \in 1..b : c[j] = Current[j]
      BY <2>1, PcallFacts
    <2>5. c[b + 1] = Handler(Top)
      BY <2>1, PcallFacts
    <2> QED
      BY <2>2, <2>3, <2>4, <2>5
  <1>9. PeakSound'
    <2>1. Len(g) >= BaseOf(ctl, Top) /\ (MaxArgs <= 6 => Len(g) - BaseOf(ctl, Top) + 0 <= 14)
      BY <1>2, <1>7, <1>8
    <2>2. \A k \in 1..BaseOf(ctl, Top) : g[k] = Current[k]
      BY <1>7, <1>8
    <2>3. Top = Top /\ ctl[Top].pc # "native" /\ 0 \in Nat /\ 0 = 0
      OBVIOUS
    <2> QED
      BY <1>1, <1>2, <1>6, <1>8, <2>1, <2>2, <2>3, PeakTop
  <1>10. SeenSound' /\ HostSound'
    <2>1. TopN(g, argc) \subseteq {<<"in", Top>>}
      BY <1>8
    <2>2. <<"in", Top>> \in Slot
      BY <1>2 DEF Slot, Tags
    <2>3. TopN(g, argc) \subseteq {<<"in", Top>>} /\ TopN(g, argc) \in SUBSET Slot
      BY <2>1, <2>2
    <2>4. SeenSound' /\ booted' = booted /\ linked' = linked /\ dead' = dead
      BY <1>6, <2>2, <2>3, SeenOwn
    <2> QED
      BY <1>1, <2>4, HostKept
  <1>11. CASE Finds(m, fun)
    <2>1. PICK a : a = [ctl[Top] EXCEPT !.pc = "run", !.base = Len(c)]
      OBVIOUS
    <2>2. a.pc = "run" /\ a.top = b /\ a.base = b + 1 /\ a \in Activations
      <3>1. Len(c) \in Nat
        BY <1>8
      <3> QED
        BY <1>2, <1>3, <1>8, <2>1, <3>1 DEF Activations
    <2>3. ctl' = [ctl EXCEPT ![Top] = a] /\ stack' = WithFrame(c)
      BY <1>6, <1>11, <2>1
    <2>4. Owns(a) = 1 /\ End(a) = b + 1
      BY <2>2, OwnsFacts
    <2>5. Holds(a, c, Top)
      <3>1. Kinds(a, 1) = {"trace"}
        BY <2>2, KindsFacts
      <3>2. c[a.top + 1] = <<"trace", Top>>
        BY <1>8, <2>2 DEF Handler
      <3>3. c[a.top + 1] \in Kinds(a, 1) \X {Top}
        BY <3>1, <3>2
      <3>4. \A k \in 1..Owns(a) : k = 1
        BY <2>4
      <3> QED
        BY <1>8, <2>4, <3>3, <3>4 DEF Holds
    <2>6. ctl' \in Seq(Activations) /\ AgreeBelow(ctl, ctl', Top) /\ ctl'[Top] = a
      BY <1>1, <1>2, <2>2, <2>3, ReplaceChain
    <2>7. /\ ctl'[Top].pc # "native" /\ Keeps(ctl'[Top]) /\ ctl'[Top].top = BaseOf(ctl, Top)
          /\ Holds(ctl'[Top], c, Top) /\ \A k \in 1..ctl'[Top].top : c[k] = Current[k]
      BY <1>7, <1>8, <2>2, <2>5, <2>6 DEF Keeps
    <2>8. Top = Top /\ ctl[Top].pc # "native"
      OBVIOUS
    <2>9. StackSound'
      BY <1>1, <1>2, <1>8, <2>3, <2>6, <2>7, <2>8, TopCall
    <2> QED
      BY <1>9, <1>10, <2>9 DEF Sound
  <1>12. CASE ~Finds(m, fun)
    <2>1. <<"message", Top>> \in Slot /\ Len(c) >= 1
      BY <1>2, <1>8 DEF Slot, Tags
    <2>2. PICK f : f = AfterError(Append(c, <<"message", Top>>))
      OBVIOUS
    <2>3. f \in Frame /\ Len(f) = Len(c) - 1 /\ \A j \in 1..(Len(c) - 1) : f[j] = c[j]
      <3>1. /\ AfterError(Append(c, <<"message", Top>>)) \in Frame
            /\ Len(AfterError(Append(c, <<"message", Top>>))) = Len(c) - 1
            /\ \A j \in 1..(Len(c) - 1) : AfterError(Append(c, <<"message", Top>>))[j] = c[j]
        BY ONLY <1>8, <2>1, AfterErrorFacts
      <3> QED
        BY ONLY <2>2, <3>1, ZenonT(30)
    <2>4. ctl' = Front(ctl) /\ stack' = WithFrame(f)
      BY <1>6, <1>12, <2>2
    <2>5. /\ ctl' \in Seq(Activations) /\ Len(ctl') = Top - 1 /\ Top - 1 \in 0..Top
          /\ \A i \in 1..(Top - 1) : ctl'[i] = ctl[i]
      BY <1>1, <1>2, <2>4, FrontChain
    <2>6. FrameNo(ctl, Top - 1) = Len(stack)
      BY <1>1, <1>2, CallFrame
    <2>7. (Top - 1) + 1 = Top /\ Len(f) = b
      BY <1>2, <1>8, <2>3
    <2>8. Len(f) = BaseOf(ctl, (Top - 1) + 1) /\ \A k \in 1..Len(f) : f[k] = Current[k]
      BY <1>7, <1>8, <2>3, <2>7
    <2>9. StackSound'
      BY <1>1, <2>3, <2>4, <2>5, <2>6, <2>8, TopPop
    <2> QED
      BY <1>9, <1>10, <2>9 DEF Sound
  <1> QED
    BY <1>11, <1>12

LEMMA EndOutputStep ==
    ASSUME Sound, NEW m \in Scripts, NEW f \in Functions, EndOutput(m, f)
    PROVE  Sound'
  <1>1. booted /\ ctl # <<>> /\ ctl[Top].pc = "output" /\ (FindsNoLink \/ Call(m, f))
    BY DEF EndOutput, InCpp, Alive
  <1>2. CASE FindsNoLink
    BY <1>2, DeadStep DEF FindsNoLink
  <1> QED
    BY <1>1, <1>2, CallStep

(* Max of a bounded set of numbers, as the last nil scan and Raise use it. *)
LEMMA Greatest ==
    ASSUME NEW N \in Nat, NEW T \in SUBSET (0..N), T # {}
    PROVE  Max(T) \in T /\ \A k \in T : k <= Max(T)
  <1> DEFINE R == {p \in Nat \X Nat : p[1] < p[2]}
  <1> DEFINE D == {N - k : k \in T}
  <1>1. IsWellFoundedOn(R, Nat)
    BY NatLessThanWellFounded DEF OpToRel
  <1>2. D \in SUBSET Nat /\ D # {}
    <2>1. \A k \in T : N - k \in Nat
      OBVIOUS
    <2>2. D \in SUBSET Nat
      BY <2>1
    <2>3. PICK k \in T : TRUE
      OBVIOUS
    <2>4. N - k \in D
      BY <2>3
    <2> QED
      BY <2>2, <2>4
  <1>3. PICK d \in D : \A e \in D : ~(<<e, d>> \in R)
    BY <1>1, <1>2, WFMin
  <1>4. PICK m \in T : d = N - m
    OBVIOUS
  <1>5. ASSUME NEW k \in T PROVE m >= k
    <2>1. N - k \in D /\ N - k \in Nat /\ N - m \in Nat
      BY <1>2, <1>4
    <2>2. ~(<<N - k, N - m>> \in R)
      BY <1>3, <1>4, <2>1
    <2>3. ~(N - k < N - m)
      BY <2>1, <2>2
    <2>4. k \in Int /\ m \in Int
      OBVIOUS
    <2> QED
      BY <2>3, <2>4
  <1>6. \E x \in T : \A y \in T : x >= y
    BY <1>5
  <1>7. Max(T) \in T /\ \A y \in T : Max(T) >= y
    BY <1>6 DEF Max
  <1> QED
    BY <1>7

(* The results that a callback may read are results. *)
LEMMA CountFacts ==
    ASSUME NEW ret \in Seq({"result", "nil"})
    PROVE  /\ ResultCount(ret) \in 0..8 /\ ResultCount(ret) <= Len(ret)
           /\ \A k \in 1..ResultCount(ret) : ret[k] # "nil"
  <1> DEFINE T == {n \in 0..8 : n <= Len(ret) /\ \A k \in 1..n : ret[k] # "nil"}
  <1>1. 0 \in T
    OBVIOUS
  <1>2. T \in SUBSET (0..8) /\ T # {} /\ 8 \in Nat
    BY <1>1
  <1>3. ResultCount(ret) = Max(T)
    BY DEF ResultCount, LUA_RESULT_COUNT
  <1> HIDE DEF T
  <1>4. Max(T) \in T
    BY <1>2, Greatest
  <1> QED
    BY <1>3, <1>4 DEF T

(* A call whose function runs: only the handler is left of it. *)
LEMMA RunFacts ==
    ASSUME StackSound, ctl # <<>>, ctl[Top].pc = "run"
    PROVE  /\ Top \in Nat \ {0} /\ Top <= MaxDepth /\ Top \in 0..MaxDepth
           /\ Current \in Frame /\ ctl[Top] \in Activations /\ ctl[Top].top \in Nat /\ MaxArgs \in Nat
           /\ Len(Current) = ctl[Top].top + 1 /\ BaseOf(ctl, Top) = ctl[Top].top
           /\ Current[ctl[Top].top + 1] \in {"trace"} \X {Top}
  <1>1. /\ Top \in Nat \ {0} /\ Top <= MaxDepth /\ Current \in Frame
        /\ ctl[Top] \in Activations /\ Holds(ctl[Top], Current, Top)
    BY CurrentFacts
  <1>2. MaxArgs \in Nat /\ Top \in 0..MaxDepth
    BY <1>1, DepthFacts
  <1>3. /\ ctl[Top].top \in Nat /\ Owns(ctl[Top]) = 1 /\ End(ctl[Top]) = ctl[Top].top + Owns(ctl[Top])
    BY <1>1, OwnsFacts
  <1>4. Len(Current) = ctl[Top].top + 1
    BY <1>1, <1>3 DEF Holds
  <1>5. BaseOf(ctl, Top) = ctl[Top].top
    <2>1. Top \in 1..(Top + 1) /\ Top \in 1..Top
      BY <1>1
    <2> QED
      BY <2>1, BaseFacts
  <1>6. Kinds(ctl[Top], 1) = {"trace"}
    BY <1>1, KindsFacts
  <1>7. Current[ctl[Top].top + 1] \in {"trace"} \X {Top}
    <2>1. 1 \in 1..Owns(ctl[Top])
      BY <1>3
    <2> QED
      BY <1>1, <1>6, <2>1 DEF Holds
  <1> QED
    BY <1>1, <1>2, <1>3, <1>4, <1>5, <1>7

LEMMA LuaReturnsStep ==
    ASSUME Sound, NEW ret \in Returns, LuaReturns(ret)
    PROVE  Sound'
  <1>1. /\ HostSound /\ StackSound /\ SeenSound /\ booted /\ ctl # <<>> /\ ctl[Top].pc = "run"
    BY DEF Sound, LuaReturns, InLua, Alive
  <1>2. /\ Top \in Nat \ {0} /\ Top <= MaxDepth /\ Top \in 0..MaxDepth
        /\ Current \in Frame /\ ctl[Top] \in Activations /\ ctl[Top].top \in Nat /\ MaxArgs \in Nat
        /\ Len(Current) = ctl[Top].top + 1 /\ BaseOf(ctl, Top) = ctl[Top].top
        /\ Current[ctl[Top].top + 1] \in {"trace"} \X {Top}
    BY <1>1, RunFacts
  <1>3. PICK b \in Nat : b = ctl[Top].top
    BY <1>2
  <1>4. PICK r : r = Results(ret, Top)
    OBVIOUS
  <1>5. PICK f : f = Current \o r
    OBVIOUS
  <1>6. PICK count : count = ResultCount(ret)
    OBVIOUS
  <1>7. ret \in Seq({"result", "nil"})
    BY DepthFacts
  <1>8. count \in 0..8 /\ count <= Len(ret) /\ \A k \in 1..count : ret[k] # "nil"
    BY <1>6, <1>7, CountFacts
  <1>9. r \in Frame /\ Len(r) = 8
    BY <1>2, <1>4, <1>7, EightResults
  <1>10. \A k \in 1..8 : /\ r[k] \in {"result", "nil"} \X {Top}
                         /\ k <= count => r[k] \in {"result"} \X {Top}
    <2>1. \A k \in 1..8 : /\ Results(ret, Top)[k] \in {"result", "nil"} \X {Top}
                          /\ k <= Len(ret) /\ ret[k] # "nil" => Results(ret, Top)[k] = <<"result", Top>>
      <3>1. \A i \in 0..MaxDepth : \A k \in 1..8 :
               /\ Results(ret, i)[k] \in {"result", "nil"} \X {i}
               /\ k <= Len(ret) /\ ret[k] # "nil" => Results(ret, i)[k] = <<"result", i>>
        BY ONLY <1>7, EightResults
      <3>2. Top \in 0..MaxDepth
        BY ONLY <1>2
      <3> QED
        BY ONLY <3>1, <3>2, ZenonT(30)
    <2>2. ASSUME NEW k \in 1..8, k <= count PROVE r[k] \in {"result"} \X {Top}
      <3>1. k \in 1..count /\ k <= Len(ret) /\ ret[k] # "nil"
        BY <1>7, <1>8, <2>2
      <3>2. r[k] = <<"result", Top>>
        BY <1>4, <2>1, <3>1
      <3> QED
        BY <3>2
    <2> QED
      BY <1>4, <2>1, <2>2
  <1>11. /\ f \in Frame /\ Len(f) = b + 9 /\ \A k \in 1..(b + 1) : f[k] = Current[k]
         /\ \A k \in 1..8 : f[b + 1 + k] = r[k]
    <2>1. /\ Current \o r \in Frame /\ Len(Current \o r) = Len(Current) + Len(r)
          /\ \A k \in 1..Len(Current) : (Current \o r)[k] = Current[k]
          /\ \A k \in 1..Len(r) : (Current \o r)[Len(Current) + k] = r[k]
      BY <1>2, <1>9, JoinFacts
    <2>2. Len(Current) = b + 1
      BY <1>2, <1>3
    <2>3. Len(f) = b + 9
      BY <1>5, <1>9, <2>1, <2>2
    <2> QED
      BY <1>5, <1>9, <2>1, <2>2, <2>3
  <1>12. PICK a : a = [ctl[Top] EXCEPT !.pc = "callback", !.start = b + 1, !.count = count]
    OBVIOUS
  <1>13. /\ a.pc = "callback" /\ a.top = b /\ a.start = b + 1 /\ a.count = count /\ a \in Activations
    <2>1. count \in 0..MostRead
      BY <1>2, <1>8 DEF MostRead, LUA_RESULT_COUNT
    <2>2. b + 1 \in Nat
      OBVIOUS
    <2>3. a.pc = "callback" /\ a.top = b /\ a.start = b + 1 /\ a.count = count
      BY <1>2, <1>3, <1>12 DEF Activations
    <2>4. a \in Activations
      BY <1>2, <1>12, <2>1, <2>2 DEF Activations
    <2> QED
      BY <2>3, <2>4
  <1>14. /\ ctl' = [ctl EXCEPT ![Top] = a] /\ stack' = WithFrame(f) /\ Uses(Used(f), Top) /\ Untouched
    <2>1. ResultStart(f) = b + 1
      BY <1>11 DEF ResultStart, LUA_RESULT_COUNT
    <2> QED
      BY <1>4, <1>5, <1>6, <1>12, <2>1 DEF LuaReturns
  <1>15. Owns(a) = 9 /\ End(a) = b + 9
    <2>1. Owns(a) = 1 + LUA_RESULT_COUNT /\ End(a) = a.top + Owns(a)
      BY <1>13, OwnsFacts
    <2> QED
      BY <1>13, <2>1 DEF LUA_RESULT_COUNT
  <1>16. Holds(a, f, Top)
    <2>1. ASSUME NEW k \in 1..9 PROVE f[a.top + k] \in Kinds(a, k) \X {Top}
      <3>1. CASE k = 1
        <4>1. Kinds(a, k) = {"trace"}
          BY <1>13, <3>1, KindsFacts
        <4>2. a.top + k = b + 1 /\ b + 1 \in 1..(b + 1)
          BY <1>13, <3>1
        <4>3. f[b + 1] = Current[b + 1] /\ Current[b + 1] \in {"trace"} \X {Top}
          BY <1>2, <1>3, <1>11, <4>2
        <4> QED
          BY <4>1, <4>2, <4>3
      <3>2. CASE k # 1
        <4>1. PICK j \in 1..8 : j = k - 1
          BY <3>2
        <4>2. a.top + k = b + 1 + j
          BY <1>13, <4>1
        <4>3. f[a.top + k] = r[j]
          BY <1>11, <4>2
        <4>4. CASE k <= count + 1
          <5>1. Kinds(a, k) = {"result"}
            BY <1>13, <3>2, <4>4, KindsFacts
          <5>2. j <= count
            BY <1>8, <4>1, <4>4
          <5> QED
            BY <1>10, <4>3, <5>1, <5>2
        <4>5. CASE ~(k <= count + 1)
          <5>1. k \in Nat /\ k > a.count + 1
            BY <1>8, <1>13, <4>5
          <5>2. Kinds(a, k) = {"result", "nil"}
            BY <1>13, <3>2, <5>1, KindsFacts
          <5> QED
            BY <1>10, <4>3, <5>2
        <4> QED
          BY <4>4, <4>5
      <3> QED
        BY <3>1, <3>2
    <2> QED
      BY <1>11, <1>15, <2>1 DEF Holds
  <1>17. \A k \in 1..b : f[k] = Current[k]
    <2>1. \A k \in 1..b : k \in 1..(b + 1)
      OBVIOUS
    <2> QED
      BY <1>11, <2>1
  <1>18. StackSound'
    <2>1. ctl' \in Seq(Activations) /\ AgreeBelow(ctl, ctl', Top) /\ ctl'[Top] = a
      BY <1>1, <1>2, <1>13, <1>14, ReplaceChain
    <2>2. /\ ctl'[Top].pc # "native" /\ Keeps(ctl'[Top]) /\ ctl'[Top].top = BaseOf(ctl, Top)
          /\ Holds(ctl'[Top], f, Top) /\ \A k \in 1..ctl'[Top].top : f[k] = Current[k]
      BY <1>2, <1>3, <1>8, <1>13, <1>16, <1>17, <2>1 DEF Keeps, LUA_RESULT_COUNT
    <2>3. Top = Top /\ ctl[Top].pc # "native"
      BY <1>1
    <2> QED
      BY <1>1, <1>2, <1>11, <1>14, <2>1, <2>2, <2>3, TopCall
  <1>19. PeakSound'
    <2>0. BaseOf(ctl, Top) = b /\ Len(f) = b + 9
      BY <1>2, <1>3, <1>11
    <2>1. Len(f) >= BaseOf(ctl, Top) /\ Len(f) - BaseOf(ctl, Top) + 0 <= 14
      <3>1. b + 9 >= b /\ (b + 9) - b + 0 <= 14
        OBVIOUS
      <3> QED
        BY <2>0, <3>1
    <2>2. \A k \in 1..BaseOf(ctl, Top) : f[k] = Current[k]
      BY <1>17, <2>0
    <2>3. Top = Top /\ ctl[Top].pc # "native" /\ 0 \in Nat /\ 0 = 0
      BY <1>1
    <2> QED
      BY <1>1, <1>2, <1>11, <1>14, <2>1, <2>2, <2>3, PeakTop
  <1>20. SeenSound' /\ HostSound'
    BY <1>1, <1>14, SeenNothing, HostKept
  <1> QED
    BY <1>18, <1>19, <1>20 DEF Sound

LEMMA EndCallbackStep ==
    ASSUME Sound, EndCallback
    PROVE  Sound'
  <1>1. /\ HostSound /\ StackSound /\ SeenSound /\ booted /\ ctl # <<>> /\ ctl[Top].pc = "callback"
        /\ ctl' = Front(ctl) /\ stack' = WithFrame(AfterCallback(Current))
        /\ Uses(Used(Current), Top) /\ Untouched
    BY DEF Sound, EndCallback, InCpp, Alive
  <1>2. /\ Top \in Nat \ {0} /\ Current \in Frame
        /\ ctl[Top] \in Activations /\ Holds(ctl[Top], Current, Top)
    BY <1>1, CurrentFacts
  <1>3. /\ ctl[Top].top \in Nat /\ Owns(ctl[Top]) = 1 + LUA_RESULT_COUNT
        /\ End(ctl[Top]) = ctl[Top].top + Owns(ctl[Top])
    BY <1>1, <1>2, OwnsFacts
  <1>4. Len(Current) = ctl[Top].top + (1 + LUA_RESULT_COUNT)
    BY <1>2, <1>3 DEF Holds
  <1>5. PICK f : f = AfterCallback(Current)
    OBVIOUS
  <1>6. Len(Current) >= 1 + LUA_RESULT_COUNT
    BY <1>3, <1>4 DEF LUA_RESULT_COUNT
  <1>7. /\ f \in Frame /\ Len(f) = Len(Current) - (1 + LUA_RESULT_COUNT)
        /\ \A j \in 1..Len(f) : f[j] = Current[j]
    BY <1>2, <1>5, <1>6, AfterCallbackFacts
  <1>8. BaseOf(ctl, Top) = ctl[Top].top
    <2>1. Top \in 1..(Top + 1) /\ Top \in 1..Top
      BY <1>2
    <2> QED
      BY <1>1, <2>1, BaseFacts
  <1>9. Len(f) = BaseOf(ctl, (Top - 1) + 1)
    <2>1. (Top - 1) + 1 = Top
      BY <1>2
    <2>2. Len(f) = ctl[Top].top
      BY <1>3, <1>4, <1>7 DEF LUA_RESULT_COUNT
    <2> QED
      BY <1>8, <2>1, <2>2
  <1>10. /\ ctl' \in Seq(Activations) /\ Len(ctl') = Top - 1 /\ Top - 1 \in 0..Top
         /\ \A i \in 1..(Top - 1) : ctl'[i] = ctl[i]
    BY <1>1, <1>2, FrontChain
  <1>11. FrameNo(ctl, Top - 1) = Len(stack)
    BY <1>1, <1>2, CallFrame
  <1>12. StackSound'
    BY <1>1, <1>5, <1>7, <1>9, <1>10, <1>11, TopPop
  <1>13. PeakSound'
    <2>1. Used(Current) \in Nat
      <3>1. 0 \in 0..Len(Current) /\ \A k \in 1..0 : Current[k][1] = "arg"
        BY <1>2 DEF Frame
      <3> QED
        BY <1>2, <3>1, UsedFacts
    <2>2. Used(Current) + 0 = Used(Current) /\ 0 \in 0..5
      BY <2>1
    <2>3. Uses(Used(Current) + 0, Top)
      BY <1>1, <2>2
    <2> QED
      BY <1>1, <2>2, <2>3, PeakCurrent
  <1>14. SeenSound' /\ HostSound'
    BY <1>1, SeenNothing, HostKept
  <1> QED
    BY <1>12, <1>13, <1>14 DEF Sound

LEMMA ReloadScriptStep ==
    ASSUME Sound, NEW m \in Scripts, ReloadScript(m)
    PROVE  Sound'
  <1>1. /\ HostSound /\ StackSound /\ SeenSound /\ booted /\ Top < MaxDepth
    BY DEF Sound, ReloadScript, InCpp, Alive
  <1>2. CASE FindsNoLink
    BY <1>2, DeadStep DEF FindsNoLink
  <1>3. CASE ~FindsNoLink
    <2>1. PICK n : n = Top + 1
      OBVIOUS
    <2>2. PICK b : b = Len(Current)
      OBVIOUS
    <2>3. PICK e : e = Append(Current, <<"in", n>>)
      OBVIOUS
    <2>4. PICK g : g = Guarded(e, 1, n)
      OBVIOUS
    <2>5. PICK c : c = Called(g, 1)
      OBVIOUS
    <2>6. PICK w : w = Results(<<>>, n)
      OBVIOUS
    <2>7. PICK r : r = c \o w
      OBVIOUS
    <2>8. PICK x : x = <<"message", n>>
      OBVIOUS
    <2>9. /\ \/ stack' = WithFrame(AfterCallback(r)) /\ Uses(Used(r), n)
             \/ stack' = WithFrame(AfterError(Append(c, x))) /\ Uses(Used(g), n)
          /\ Sees(TopN(g, 1), <<"in", n>>) /\ UNCHANGED ctl
      BY <1>3, <2>1, <2>3, <2>4, <2>5, <2>6, <2>7, <2>8 DEF ReloadScript
    <2>10. /\ n \in Nat \ {0} /\ n \in 0..MaxDepth /\ Current \in Frame /\ b \in Nat
           /\ n \in 1..(Top + 1)
      BY <1>1, <2>1, <2>2, CurrentFacts, DepthFacts DEF Frame
    <2>11. <<"in", n>> \in Slot /\ x \in Slot
      BY <2>8, <2>10 DEF Slot, Tags
    <2>12. /\ e \in Frame /\ Len(e) = b + 1 /\ \A k \in 1..b : e[k] = Current[k]
           /\ e[b + 1] = <<"in", n>>
      BY <2>2, <2>3, <2>10, <2>11, PushFacts
    <2>13. Pcalls(e, b, 1, n, g, c)
      BY <2>4, <2>5, <2>10, <2>12 DEF Pcalls
    <2>14. /\ g \in Frame /\ Len(g) = b + 1 + 2 /\ \A j \in 1..b : g[j] = e[j]
           /\ c \in Frame /\ Len(c) = b + 1 /\ \A j \in 1..b : c[j] = e[j]
      BY <2>13, PcallFacts
    <2>15. BaseOf(ctl, n) = b
      BY <1>1, <2>1, <2>2, <2>10, BaseFacts
    <2>16. SeenSound' /\ HostSound'
      <3>1. AllAbove(e, b, 1, <<"in", n>>)
        <4>1. \A k \in 1..1 : k = 1
          OBVIOUS
        <4> QED
          BY <2>12, <4>1 DEF AllAbove
      <3>2. TopN(g, 1) \subseteq {<<"in", n>>}
        BY <2>13, <3>1, PcallFacts
      <3>3. TopN(g, 1) \in SUBSET Slot
        BY <2>11, <3>2
      <3>4. SeenSound' /\ booted' = booted /\ linked' = linked /\ dead' = dead
        BY <2>9, <2>11, <3>2, <3>3, SeenOwn
      <3> QED
        BY <1>1, <3>4, HostKept
    <2>17. CASE stack' = WithFrame(AfterCallback(r)) /\ Uses(Used(r), n)
      <3>1. w \in Frame /\ Len(w) = 8
        <4>1. <<>> \in Seq({"result", "nil"})
          OBVIOUS
        <4> QED
          BY <2>6, <2>10, <4>1, EightResults
      <3>2. /\ r \in Frame /\ Len(r) = Len(c) + Len(w) /\ \A k \in 1..Len(c) : r[k] = c[k]
        BY <2>7, <2>14, <3>1, JoinFacts
      <3>3. Len(r) = b + 9 /\ \A k \in 1..b : k \in 1..Len(c)
        BY <2>10, <2>14, <3>1, <3>2
      <3>4. \A k \in 1..b : r[k] = Current[k]
        BY <2>12, <2>14, <3>2, <3>3
      <3>5. PICK f : f = AfterCallback(r)
        OBVIOUS
      <3>6. f \in Frame /\ Len(f) = b /\ \A j \in 1..Len(f) : f[j] = r[j]
        <4>1. Len(r) >= 1 + LUA_RESULT_COUNT
          BY <2>10, <3>3 DEF LUA_RESULT_COUNT
        <4>2. /\ f \in Frame /\ Len(f) = Len(r) - (1 + LUA_RESULT_COUNT)
              /\ \A j \in 1..Len(f) : f[j] = r[j]
          BY <3>2, <3>5, <4>1, AfterCallbackFacts
        <4>3. (b + 9) - (1 + 8) = b
          BY <2>10
        <4> QED
          BY <3>3, <4>2, <4>3 DEF LUA_RESULT_COUNT
      <3>7. Len(f) = Len(Current) /\ \A k \in 1..Len(f) : f[k] = Current[k]
        BY <2>2, <3>4, <3>6
      <3>8. StackSound'
        BY <1>1, <2>9, <2>17, <3>5, <3>6, <3>7, SameFrame
      <3>9. PeakSound'
        <4>1. b + 9 >= b /\ (b + 9) - b + 0 <= 14
          BY <2>10
        <4>2. Len(r) >= BaseOf(ctl, n) /\ Len(r) - BaseOf(ctl, n) + 0 <= 14
          BY <2>15, <3>3, <4>1
        <4>3. \A k \in 1..BaseOf(ctl, n) : r[k] = Current[k]
          BY <2>15, <3>4
        <4>4. 0 \in Nat /\ 0 = 0
          OBVIOUS
        <4> QED
          BY <1>1, <2>1, <2>10, <2>17, <3>2, <4>2, <4>3, <4>4, PeakTop
      <3> QED
        BY <2>16, <3>8, <3>9 DEF Sound
    <2>18. CASE stack' = WithFrame(AfterError(Append(c, x))) /\ Uses(Used(g), n)
      <3>1. PICK f : f = AfterError(Append(c, x))
        OBVIOUS
      <3>2. Len(c) >= 1 /\ Len(c) - 1 = b
        BY <2>10, <2>14
      <3>3. f \in Frame /\ Len(f) = b /\ \A j \in 1..b : f[j] = c[j]
        <4>1. /\ AfterError(Append(c, x)) \in Frame
              /\ Len(AfterError(Append(c, x))) = Len(c) - 1
              /\ \A j \in 1..(Len(c) - 1) : AfterError(Append(c, x))[j] = c[j]
          BY ONLY <2>11, <2>14, <3>2, AfterErrorFacts
        <4> QED
          BY ONLY <3>1, <3>2, <4>1, ZenonT(30)
      <3>4. Len(f) = Len(Current) /\ \A k \in 1..Len(f) : f[k] = Current[k]
        BY <2>2, <2>12, <2>14, <3>3
      <3>5. StackSound'
        BY <1>1, <2>9, <2>18, <3>1, <3>3, <3>4, SameFrame
      <3>6. PeakSound'
        <4>1. b + 1 + 2 >= b /\ (b + 1 + 2) - b + 0 <= 14
          BY <2>10
        <4>2. Len(g) >= BaseOf(ctl, n) /\ Len(g) - BaseOf(ctl, n) + 0 <= 14
          BY <2>14, <2>15, <4>1
        <4>3. \A k \in 1..BaseOf(ctl, n) : g[k] = Current[k]
          BY <2>12, <2>14, <2>15
        <4>4. 0 \in Nat /\ 0 = 0
          OBVIOUS
        <4> QED
          BY <1>1, <2>1, <2>10, <2>14, <2>18, <4>2, <4>3, <4>4, PeakTop
      <3> QED
        BY <2>16, <3>5, <3>6 DEF Sound
    <2> QED
      BY <2>9, <2>17, <2>18
  <1> QED
    BY <1>2, <1>3

LEMMA LuaHoldsStep ==
    ASSUME Sound, NEW m \in Scripts, LuaHolds(m)
    PROVE  Sound'
  <1>1. /\ HostSound /\ StackSound /\ PeakSound /\ SeenSound /\ booted
        /\ Untouched /\ UNCHANGED <<ctl, stack, peak>>
    BY DEF Sound, LuaHolds, InLua, Alive
  <1>2. SeenSound' /\ HostSound'
    BY <1>1, SeenNothing, HostKept
  <1>3. StackSound' /\ PeakSound'
    BY <1>1 DEF StackSound, StackTypes, PeakSound, WithinMinStack
  <1> QED
    BY <1>2, <1>3 DEF Sound

LEMMA EditScriptStep ==
    ASSUME Sound, UNCHANGED <<engine, dead, ctl, stack, peak, seen>>
    PROVE  Sound'
  <1>1. HostSound' /\ SeenSound' /\ PeakSound'
    BY DEF Sound, HostSound, SeenSound, ReadsOwn, PeakSound, WithinMinStack, engine
  <1>2. StackSound'
    BY DEF Sound, StackSound, StackTypes
  <1> QED
    BY <1>1, <1>2 DEF Sound

(* The open call that catches an error, and its frame up to the handler. *)
LEMMA CatchFacts ==
    ASSUME StackSound, NEW j \in 1..Top, ctl[j].pc = "run"
    PROVE  /\ FrameOf(j) = FrameNo(ctl, j) /\ FrameNo(ctl, j - 1) = FrameNo(ctl, j)
           /\ FrameNo(ctl, j) \in 1..Len(stack) /\ stack[FrameNo(ctl, j)] \in Frame
           /\ ctl[j].top \in Nat /\ ctl[j].base = ctl[j].top + 1
           /\ Len(stack[FrameNo(ctl, j)]) >= ctl[j].top + 1
           /\ BaseOf(ctl, j) = ctl[j].top /\ j \in 1..(Top + 1)
  <1>1. /\ ctl \in Seq(Activations) /\ stack \in Seq(Frame) /\ Layout(ctl, stack) /\ Books(ctl)
        /\ Top \in Nat /\ Top = Len(ctl) /\ Len(stack) = FrameNo(ctl, Top)
    BY CurrentFacts DEF StackSound
  <1>2. FrameOf(j) = FrameNo(ctl, j)
    BY DEF FrameOf, FrameNo
  <1>3. FrameNo(ctl, j - 1) = FrameNo(ctl, j)
    <2>1. j - 1 \in Nat /\ (j - 1) + 1 = j
      BY <1>1
    <2> QED
      BY <2>1, NextFrame
  <1>4. /\ FrameNo(ctl, j) \in 1..Len(stack) /\ stack[FrameNo(ctl, j)] \in Frame
        /\ Placed(ctl, stack[FrameNo(ctl, j)], j) /\ ctl[j] \in Activations
    <2>1. FrameNo(ctl, Top) <= Len(stack) /\ Top <= Len(ctl)
      <3>1. FrameNo(ctl, Top) \in Nat
        BY <1>1
      <3> QED
        BY <1>1, <3>1
    <2> QED
      BY <1>1, <2>1, FramesOfBelow
  <1>5. j \in DOMAIN ctl /\ j \in 1..(Top + 1)
    BY <1>1
  <1>6. Keeps(ctl[j])
    BY <1>1, <1>5 DEF Books
  <1>7. ctl[j].base = ctl[j].top + 1
    BY <1>6 DEF Keeps
  <1>8. ctl[j].top \in Nat /\ Owns(ctl[j]) = 1
    BY <1>4, OwnsFacts
  <1>9. Len(stack[FrameNo(ctl, j)]) >= ctl[j].top + 1
    <2>1. 1 \in 1..Owns(ctl[j])
      BY <1>8
    <2>2. ctl[j].top + 1 <= Len(stack[FrameNo(ctl, j)])
      BY <1>4, <2>1 DEF Placed
    <2>3. Len(stack[FrameNo(ctl, j)]) \in Nat
      BY <1>4 DEF Frame
    <2> QED
      BY <1>8, <2>2, <2>3
  <1>10. BaseOf(ctl, j) = ctl[j].top
    BY <1>5, BaseFacts
  <1> QED
    BY <1>2, <1>3, <1>4, <1>5, <1>7, <1>8, <1>9, <1>10

LEMMA RaiseStep ==
    ASSUME Sound, booted, Raise
    PROVE  Sound'
  <1>1. HostSound /\ StackSound /\ SeenSound
    BY DEF Sound
  <1>2. /\ ctl \in Seq(Activations) /\ stack \in Seq(Frame) /\ Layout(ctl, stack) /\ Books(ctl)
        /\ Top \in Nat /\ Top = Len(ctl) /\ Top <= MaxDepth /\ DOMAIN ctl = 1..Top
    BY <1>1, CurrentFacts, LenProperties DEF StackSound
  <1>3. PICK running : running = {j \in DOMAIN ctl : ctl[j].pc = "run"}
    OBVIOUS
  <1>4. CASE running = {}
    BY <1>3, <1>4, DeadStep DEF Raise
  <1>5. CASE running # {}
    <2>1. PICK j : j = Max(running)
      OBVIOUS
    <2>2. j \in 1..Top /\ ctl[j].pc = "run"
      <3>1. running \in SUBSET (0..Top)
        BY <1>2, <1>3
      <3>2. Max(running) \in running
        BY <1>2, <1>5, <3>1, Greatest
      <3> QED
        BY <1>2, <1>3, <2>1, <3>2
    <2>3. PICK n : n = FrameNo(ctl, j)
      OBVIOUS
    <2>4. PICK b : b = ctl[j].top
      OBVIOUS
    <2>5. /\ FrameOf(j) = n /\ FrameNo(ctl, j - 1) = n /\ n \in 1..Len(stack) /\ stack[n] \in Frame
          /\ b \in Nat /\ ctl[j].base = b + 1 /\ Len(stack[n]) >= b + 1
          /\ BaseOf(ctl, j) = b /\ j \in 1..(Top + 1)
      BY <1>1, <2>2, <2>3, <2>4, CatchFacts
    <2>6. PICK c : c = SubSeq(stack[n], 1, b + 1)
      OBVIOUS
    <2>7. PICK x : x = <<"message", j>>
      OBVIOUS
    <2>8. PICK g : g = Append(c, x)
      OBVIOUS
    <2>9. PICK f : f = AfterError(g)
      OBVIOUS
    <2>10. /\ ctl' = SubSeq(ctl, 1, j - 1)
           /\ stack' = Append(SubSeq(stack, 1, n - 1), f)
           /\ Uses(Used(g), j) /\ Untouched
      BY <1>3, <1>5, <2>1, <2>5, <2>6, <2>7, <2>8, <2>9 DEF Raise
    <2>11. x \in Slot
      <3>1. j \in 0..MaxDepth
        BY <1>2, <2>2, DepthFacts
      <3> QED
        BY <2>7, <3>1 DEF Slot, Tags
    <2>12. c \in Frame /\ Len(c) = b + 1 /\ \A k \in 1..(b + 1) : c[k] = stack[n][k]
      BY <2>5, <2>6 DEF Frame
    <2>13. g \in Frame /\ Len(g) = b + 2 /\ \A k \in 1..b : g[k] = stack[n][k]
      <3>1. g \in Frame /\ Len(g) = Len(c) + 1 /\ \A k \in 1..Len(c) : g[k] = c[k]
        BY <2>8, <2>11, <2>12, PushFacts
      <3>2. \A k \in 1..b : k \in 1..(b + 1)
        BY <2>5
      <3>3. Len(g) = b + 2
        BY <2>5, <2>12, <3>1
      <3> QED
        BY <2>12, <3>1, <3>2, <3>3
    <2>14. f \in Frame /\ Len(f) = b /\ \A k \in 1..b : f[k] = stack[n][k]
      <3>1. Len(c) >= 1 /\ Len(c) - 1 = b /\ f = AfterError(Append(c, x))
        BY <2>5, <2>8, <2>9, <2>12
      <3>2. f \in Frame /\ Len(f) = b /\ \A k \in 1..b : f[k] = c[k]
        <4>1. /\ AfterError(Append(c, x)) \in Frame
              /\ Len(AfterError(Append(c, x))) = Len(c) - 1
              /\ \A k \in 1..(Len(c) - 1) : AfterError(Append(c, x))[k] = c[k]
          BY ONLY <2>11, <2>12, <3>1, AfterErrorFacts
        <4> QED
          BY ONLY <3>1, <4>1, ZenonT(30)
      <3>3. \A k \in 1..b : k \in 1..(b + 1)
        BY <2>5
      <3> QED
        BY <2>12, <3>2, <3>3
    <2>15. /\ ctl' \in Seq(Activations) /\ Len(ctl') = j - 1 /\ \A i \in 1..(j - 1) : ctl'[i] = ctl[i]
      <3>1. PICK m \in Nat : m = j - 1
        BY <1>2, <2>2
      <3>2. m <= Len(ctl)
        BY <1>2, <2>2, <3>1
      <3>3. ctl' = SubSeq(ctl, 1, m)
        BY <2>10, <3>1
      <3>4. ctl' \in Seq(Activations) /\ Len(ctl') = m /\ \A i \in 1..m : ctl'[i] = ctl[i]
        BY <1>2, <3>2, <3>3
      <3> QED
        BY <3>1, <3>4
    <2>16. /\ stack' \in Seq(Frame) /\ Len(stack') = n /\ stack'[n] = f
           /\ \A i \in 1..(n - 1) : stack'[i] = stack[i]
      <3>1. PICK m \in Nat : m = n - 1
        BY <1>2, <2>5
      <3>2. PICK t : t = SubSeq(stack, 1, m)
        OBVIOUS
      <3>3. m <= Len(stack) /\ m + 1 = n
        BY <1>2, <2>5, <3>1
      <3>4. t \in Seq(Frame) /\ Len(t) = m /\ \A i \in 1..m : t[i] = stack[i]
        BY <1>2, <3>2, <3>3
      <3>5. stack' = Append(t, f)
        BY <2>10, <3>1, <3>2
      <3>6. /\ stack' \in Seq(Frame) /\ Len(stack') = m + 1 /\ stack'[m + 1] = f
            /\ \A i \in 1..m : stack'[i] = t[i]
        BY <2>14, <3>4, <3>5
      <3> QED
        BY <3>1, <3>3, <3>4, <3>6
    <2>17. StackSound'
      <3>1. Len(ctl') <= Len(ctl) /\ Len(ctl') <= MaxDepth
        BY <1>2, <2>2, <2>15, DepthFacts
      <3>2. \A i \in 1..Len(ctl') : ctl'[i] = ctl[i]
        BY <2>15
      <3>3. Len(stack') = FrameNo(ctl, Len(ctl')) /\ \A i \in 1..(Len(stack') - 1) : stack'[i] = stack[i]
        BY <2>5, <2>15, <2>16
      <3>4. b = IF Len(ctl') = 0 THEN 0 ELSE End(ctl[Len(ctl')])
        <4>1. j = 1 <=> j - 1 = 0
          BY <1>2, <2>2
        <4>2. b = IF j = 1 THEN 0 ELSE End(ctl[j - 1])
          BY <2>5 DEF BaseOf
        <4> QED
          BY <2>15, <4>1, <4>2
      <3>5. Len(stack'[Len(stack')]) = IF Len(ctl') = 0 THEN 0 ELSE End(ctl[Len(ctl')])
        BY <2>14, <2>16, <3>4
      <3>6. \A k \in 1..Len(stack'[Len(stack')]) : stack'[Len(stack')][k] = stack[Len(stack')][k]
        BY <2>14, <2>16
      <3>7. Layout(ctl', stack') /\ Books(ctl')
        BY <1>2, <2>15, <2>16, <3>1, <3>2, <3>3, <3>5, <3>6, LayoutPop
      <3> QED
        BY <2>15, <2>16, <3>1, <3>7 DEF StackSound, StackTypes
    <2>18. PeakSound'
      <3>1. b + 2 >= b /\ (b + 2) - b + 0 <= 14
        BY <2>5
      <3>2. Len(g) >= BaseOf(ctl, j) /\ Len(g) - BaseOf(ctl, j) + 0 <= 14
        BY <2>5, <2>13, <3>1
      <3>3. \A k \in 1..BaseOf(ctl, j) : g[k] = stack[FrameNo(ctl, j - 1)][k]
        BY <2>5, <2>13
      <3>4. Used(g) \in Nat
        <4>1. 0 \in 0..Len(g) /\ \A k \in 1..0 : g[k][1] = "arg"
          BY <2>13 DEF Frame
        <4> QED
          BY <2>13, <4>1, UsedFacts
      <3>5. Used(g) = Used(g) + 0 /\ Uses(Used(g), j) /\ 0 \in Nat
        BY <2>10, <3>4
      <3>6. ctl[j].pc # "native"
        BY <2>2
      <3> QED
        BY <1>1, <2>5, <2>13, <3>2, <3>3, <3>5, <3>6, PeakOfCall
    <2>19. SeenSound' /\ HostSound'
      BY <1>1, <2>10, SeenNothing, HostKept
    <2> QED
      BY <2>17, <2>18, <2>19 DEF Sound
  <1> QED
    BY <1>4, <1>5

LEMMA LuaCallStep ==
    ASSUME Sound, NEW n \in 0..MaxArgs, LuaCall(n)
    PROVE  Sound'
  <1>1. /\ HostSound /\ StackSound /\ SeenSound /\ booted /\ ctl # <<>> /\ Top < MaxDepth
    BY DEF Sound, LuaCall, InLua, Alive
  <1>2. PICK a : a = [pc |-> "native", top |-> 0, outs |-> 0, base |-> 0, start |-> 0, count |-> n]
    OBVIOUS
  <1>3. PICK f : f = Slots("arg", Top + 1, n)
    OBVIOUS
  <1>4. /\ ctl' = Append(ctl, a) /\ stack' = Append(stack, f)
        /\ peak' = [slots |-> 0, nested |-> FALSE] /\ Untouched
    BY <1>2, <1>3 DEF LuaCall
  <1>5. /\ ctl \in Seq(Activations) /\ stack \in Seq(Frame) /\ Layout(ctl, stack) /\ Books(ctl)
        /\ Top \in Nat \ {0} /\ Top = Len(ctl) /\ Len(stack) = FrameNo(ctl, Top)
    BY <1>1, CurrentFacts DEF StackSound
  <1>6. MaxArgs \in Nat /\ n \in Nat /\ n <= MaxArgs /\ Top + 1 \in 0..MaxDepth /\ Top + 1 <= MaxDepth
    BY <1>1, <1>5, DepthFacts
  <1>7. /\ a \in Activations /\ a.pc = "native" /\ a.top = 0 /\ a.outs = 0 /\ a.count = n /\ a.start = 0
    <2>1. n \in 0..MostRead
      BY <1>6 DEF MostRead, LUA_RESULT_COUNT
    <2>2. 0 \in 0..(MaxArgs + 2)
      BY <1>6
    <2> QED
      BY <1>2, <2>1, <2>2 DEF Activations
  <1>8. f \in Frame /\ Len(f) = n /\ \A k \in 1..n : f[k] = <<"arg", Top + 1>>
    <2>1. "arg" \in Tags
      BY DEF Tags
    <2> QED
      BY <1>3, <1>6, <2>1, SlotsFacts
  <1>9. Owns(a) = n /\ End(a) = n
    <2>1. Owns(a) = a.count + a.outs /\ End(a) = a.top + Owns(a)
      BY <1>7, OwnsFacts
    <2> QED
      BY <1>6, <1>7, <2>1
  <1>10. Holds(a, f, Top + 1)
    <2>1. ASSUME NEW k \in 1..n PROVE f[a.top + k] \in Kinds(a, k) \X {Top + 1}
      <3>1. a.top + k = k /\ k \in Nat /\ k <= a.count
        BY <1>6, <1>7
      <3>2. Kinds(a, k) = {"arg"}
        BY <1>7, <3>1, KindsFacts
      <3>3. f[a.top + k] = <<"arg", Top + 1>>
        BY <1>8, <3>1
      <3> QED
        BY <3>2, <3>3
    <2> QED
      BY <1>8, <1>9, <2>1 DEF Holds
  <1>11. /\ ctl' \in Seq(Activations) /\ Top + 1 \in Nat \ {0}
         /\ AgreeBelow(ctl, ctl', Top + 1) /\ ctl'[Top + 1] = a
    BY <1>1, <1>4, <1>7, AppendChain
  <1>12. /\ stack' \in Seq(Frame) /\ Len(stack') = Len(stack) + 1 /\ stack'[Len(stack) + 1] = f
         /\ \A g \in 1..Len(stack) : stack'[g] = stack[g]
    BY <1>4, <1>5, <1>8
  <1>13. NativeOnTop(ctl, stack, ctl'[Top + 1], stack', Top + 1)
    <2>1. (Top + 1) - 1 = Top /\ Top + 1 > 1
      BY <1>5
    <2>2. Keeps(a)
      BY <1>6, <1>7 DEF Keeps
    <2>3. Len(stack) \in Nat
      BY <1>5
    <2>4. (Len(stack) + 1) - 1 = Len(stack)
      BY <2>3
    <2>5. Len(stack') = FrameNo(ctl, (Top + 1) - 1) + 1
      BY <1>5, <1>12, <2>1
    <2>6. \A g \in 1..(Len(stack') - 1) : stack'[g] = stack[g]
      BY <1>12, <2>4
    <2>7. Holds(a, stack'[Len(stack')], Top + 1)
      BY <1>10, <1>12
    <2> QED
      BY <1>5, <1>7, <1>11, <2>1, <2>2, <2>5, <2>6, <2>7 DEF NativeOnTop
  <1>14. StackSound'
    <2>1. Layout(ctl', stack') /\ Books(ctl')
      BY <1>5, <1>11, <1>12, <1>13, LayoutNative
    <2>2. Len(ctl') <= MaxDepth
      BY <1>6, <1>11 DEF AgreeBelow
    <2> QED
      BY <1>11, <1>12, <2>1, <2>2 DEF StackSound, StackTypes
  <1>15. PeakSound'
    <2>1. peak' \in [slots : Nat, nested : BOOLEAN] /\ peak'.slots = 0
      BY <1>4
    <2>2. ~(peak'.slots > LUA_MINSTACK)
      BY <2>1 DEF LUA_MINSTACK
    <2> QED
      BY <2>1, <2>2 DEF PeakSound, WithinMinStack
  <1>16. SeenSound' /\ HostSound'
    BY <1>1, <1>4, SeenNothing, HostKept
  <1> QED
    BY <1>14, <1>15, <1>16 DEF Sound

(* A C++ function that Lua called: its arguments, then what it has written. *)
LEMMA NativeFacts ==
    ASSUME StackSound, ctl # <<>>, ctl[Top].pc = "native"
    PROVE  /\ Top \in Nat \ {0} /\ Top > 1 /\ Top <= MaxDepth /\ Top \in 0..MaxDepth
           /\ Current \in Frame /\ ctl[Top] \in Activations /\ MaxArgs \in Nat
           /\ ctl[Top].top = 0 /\ ctl[Top].start = 0 /\ ctl[Top].outs <= MaxArgs
           /\ ctl[Top].outs \in Nat /\ ctl[Top].count \in Nat
           /\ Len(Current) = ctl[Top].count + ctl[Top].outs
           /\ \A k \in 1..ctl[Top].count : Current[k] = <<"arg", Top>>
           /\ \A k \in 1..ctl[Top].outs : Current[ctl[Top].count + k] = <<"out", Top>>
           /\ Len(stack) = FrameNo(ctl, Top - 1) + 1
  <1>1. /\ Top \in Nat \ {0} /\ Top <= MaxDepth /\ Current \in Frame /\ Top \in 1..Len(ctl)
        /\ ctl \in Seq(Activations)
        /\ ctl[Top] \in Activations /\ Holds(ctl[Top], Current, Top) /\ Placed(ctl, Current, Top)
        /\ Keeps(ctl[Top]) /\ Books(ctl) /\ Len(stack) = FrameNo(ctl, Top)
    BY CurrentFacts DEF StackSound
  <1>2. MaxArgs \in Nat /\ Top \in 0..MaxDepth
    BY <1>1, DepthFacts
  <1>3. Top > 1
    <2>1. Top # 1
      BY <1>1 DEF Books
    <2> QED
      BY <1>1, <2>1
  <1>4. ctl[Top].top = 0 /\ ctl[Top].start = 0 /\ ctl[Top].outs <= MaxArgs
    BY <1>1 DEF Placed, Keeps
  <1>5. /\ ctl[Top].outs \in Nat /\ ctl[Top].count \in Nat
        /\ Owns(ctl[Top]) = ctl[Top].count + ctl[Top].outs
        /\ End(ctl[Top]) = ctl[Top].top + Owns(ctl[Top])
    BY <1>1, OwnsFacts
  <1>6. Len(Current) = ctl[Top].count + ctl[Top].outs
    BY <1>1, <1>4, <1>5 DEF Holds
  <1>7. ASSUME NEW k \in 1..ctl[Top].count PROVE Current[k] = <<"arg", Top>>
    <2>1. k \in Nat /\ k <= ctl[Top].count /\ k \in 1..Owns(ctl[Top]) /\ ctl[Top].top + k = k
      BY <1>4, <1>5
    <2>2. Kinds(ctl[Top], k) = {"arg"}
      BY <1>1, <2>1, KindsFacts
    <2>3. Current[ctl[Top].top + k] \in Kinds(ctl[Top], k) \X {Top}
      BY <1>1, <2>1 DEF Holds
    <2>4. Current[k] \in {"arg"} \X {Top}
      BY <2>1, <2>2, <2>3
    <2> QED
      BY <2>4
  <1>8. ASSUME NEW k \in 1..ctl[Top].outs PROVE Current[ctl[Top].count + k] = <<"out", Top>>
    <2>1. PICK j \in Nat : j = ctl[Top].count + k
      BY <1>5
    <2>2. j > ctl[Top].count /\ j \in 1..Owns(ctl[Top]) /\ ctl[Top].top + j = j
      BY <1>4, <1>5, <2>1
    <2>3. Kinds(ctl[Top], j) = {"out"}
      BY <1>1, <2>2, KindsFacts
    <2>4. Current[ctl[Top].top + j] \in Kinds(ctl[Top], j) \X {Top}
      BY <1>1, <2>2 DEF Holds
    <2>5. Current[j] \in {"out"} \X {Top}
      BY <2>2, <2>3, <2>4
    <2>6. Current[j] = <<"out", Top>>
      BY <2>5
    <2> QED
      BY <2>1, <2>6
  <1>9. Len(stack) = FrameNo(ctl, Top - 1) + 1
    <2>1. Top - 1 \in Nat /\ (Top - 1) + 1 = Top
      BY <1>1
    <2> QED
      BY <1>1, <2>1, NextFrame
  <1> QED
    BY <1>1, <1>2, <1>3, <1>4, <1>5, <1>6, <1>7, <1>8, <1>9

(* The stream of a callback lies on the results above its handler. *)
LEMMA CallbackFacts ==
    ASSUME StackSound, ctl # <<>>, ctl[Top].pc = "callback"
    PROVE  /\ Top \in 0..MaxDepth /\ ctl[Top].start \in Nat /\ ctl[Top].count \in Nat
           /\ \A k \in 1..ctl[Top].count : Current[ctl[Top].start + k] = <<"result", Top>>
  <1>1. /\ Top \in Nat \ {0} /\ Top <= MaxDepth
        /\ ctl[Top] \in Activations /\ Holds(ctl[Top], Current, Top) /\ Keeps(ctl[Top])
    BY CurrentFacts
  <1>2. Top \in 0..MaxDepth
    BY <1>1, DepthFacts
  <1>3. ctl[Top].start = ctl[Top].top + 1 /\ ctl[Top].count <= 8
    BY <1>1 DEF Keeps, LUA_RESULT_COUNT
  <1>4. ctl[Top].top \in Nat /\ ctl[Top].count \in Nat /\ Owns(ctl[Top]) = 9
    <2>1. Owns(ctl[Top]) = 1 + LUA_RESULT_COUNT /\ ctl[Top].top \in Nat /\ ctl[Top].count \in Nat
      BY <1>1, OwnsFacts
    <2> QED
      BY <2>1 DEF LUA_RESULT_COUNT
  <1>5. ASSUME NEW k \in 1..ctl[Top].count PROVE Current[ctl[Top].start + k] = <<"result", Top>>
    <2>1. PICK j \in Nat : j = k + 1
      BY <1>4
    <2>2. j # 1 /\ j <= ctl[Top].count + 1 /\ j \in 1..Owns(ctl[Top])
          /\ ctl[Top].top + j = ctl[Top].start + k
      BY <1>3, <1>4, <2>1
    <2>3. Kinds(ctl[Top], j) = {"result"}
      BY <1>1, <2>2, KindsFacts
    <2>4. Current[ctl[Top].top + j] \in Kinds(ctl[Top], j) \X {Top}
      BY <1>1, <2>2 DEF Holds
    <2>5. Current[ctl[Top].start + k] \in {"result"} \X {Top}
      BY <2>2, <2>3, <2>4
    <2> QED
      BY <2>5
  <1>6. ctl[Top].start \in Nat
    BY <1>3, <1>4
  <1> QED
    BY <1>2, <1>4, <1>5, <1>6

LEMMA ReadStep ==
    ASSUME Sound, NEW index \in Nat, Read(index)
    PROVE  Sound'
  <1>1. /\ HostSound /\ StackSound /\ SeenSound /\ booted /\ ctl # <<>>
        /\ ctl[Top].pc \in {"callback", "native"}
        /\ index < ctl[Top].count
        /\ Uses(Used(Current) + 1, Top) /\ UNCHANGED <<ctl, stack>>
    BY DEF Sound, Read, Reading, Alive
  <1>2. PICK x : x = <<IF ctl[Top].pc = "native" THEN "arg" ELSE "result", Top>>
    OBVIOUS
  <1>3. Sees({Current[ctl[Top].start + index + 1]}, x)
    BY <1>2 DEF Read
  <1>4. Current[ctl[Top].start + index + 1] = x /\ x \in Slot
    <2>1. CASE ctl[Top].pc = "native"
      <3>1. /\ Top \in 0..MaxDepth /\ ctl[Top].start = 0 /\ ctl[Top].count \in Nat
            /\ \A k \in 1..ctl[Top].count : Current[k] = <<"arg", Top>>
        BY <1>1, <2>1, NativeFacts
      <3>2. ctl[Top].start + index + 1 \in 1..ctl[Top].count
        BY <1>1, <3>1
      <3>3. x = <<"arg", Top>>
        BY <1>2, <2>1
      <3>4. Current[ctl[Top].start + index + 1] = x
        BY <3>1, <3>2, <3>3
      <3>5. <<"arg", Top>> \in Slot
        BY <3>1 DEF Slot, Tags
      <3> QED
        BY <3>3, <3>4, <3>5
    <2>2. CASE ctl[Top].pc = "callback"
      <3>1. /\ Top \in 0..MaxDepth /\ ctl[Top].start \in Nat /\ ctl[Top].count \in Nat
            /\ \A k \in 1..ctl[Top].count : Current[ctl[Top].start + k] = <<"result", Top>>
        BY <1>1, <2>2, CallbackFacts
      <3>2. PICK k \in 1..ctl[Top].count : k = index + 1
        BY <1>1, <3>1
      <3>3. ctl[Top].start + index + 1 = ctl[Top].start + k
        BY <3>1, <3>2
      <3>4. x = <<"result", Top>>
        BY <1>2, <2>2
      <3>5. Current[ctl[Top].start + index + 1] = x
        BY <3>1, <3>3, <3>4
      <3>6. <<"result", Top>> \in Slot
        BY <3>1 DEF Slot, Tags
      <3> QED
        BY <3>4, <3>5, <3>6
    <2> QED
      BY <1>1, <2>1, <2>2
  <1>5. SeenSound' /\ HostSound'
    <2>1. {Current[ctl[Top].start + index + 1]} = {x} /\ {x} \in SUBSET Slot /\ {x} \subseteq {x}
      BY <1>4
    <2>2. Sees({x}, x)
      BY <1>3, <2>1
    <2>3. SeenSound' /\ booted' = booted /\ linked' = linked /\ dead' = dead
      BY <1>4, <2>1, <2>2, SeenOwn
    <2> QED
      BY <1>1, <2>3, HostKept
  <1>6. PeakSound'
    BY <1>1, PeakCurrent
  <1>7. StackSound'
    BY <1>1 DEF StackSound, StackTypes
  <1> QED
    BY <1>5, <1>6, <1>7 DEF Sound

LEMMA WriteOutStep ==
    ASSUME Sound, WriteOut
    PROVE  Sound'
  <1>1. PICK a : a = [ctl[Top] EXCEPT !.outs = @ + 1]
    OBVIOUS
  <1>2. PICK f : f = Append(Current, <<"out", Top>>)
    OBVIOUS
  <1>3. /\ HostSound /\ StackSound /\ SeenSound /\ booted
        /\ ctl # <<>> /\ ctl[Top].pc = "native" /\ ctl[Top].outs < MaxArgs
        /\ ctl' = [ctl EXCEPT ![Top] = a] /\ stack' = WithFrame(f)
        /\ Uses(Used(Last(stack')) + 1, Top) /\ Untouched
    BY <1>1, <1>2 DEF Sound, WriteOut, Alive
  <1>4. PICK count, outs : count = ctl[Top].count /\ outs = ctl[Top].outs
    OBVIOUS
  <1>5. /\ Top \in Nat \ {0} /\ Top > 1 /\ Top <= MaxDepth /\ Top \in 0..MaxDepth
        /\ Current \in Frame /\ ctl[Top] \in Activations /\ MaxArgs \in Nat
        /\ ctl[Top].top = 0 /\ ctl[Top].start = 0
        /\ outs \in Nat /\ count \in Nat /\ Len(Current) = count + outs
        /\ \A k \in 1..count : Current[k] = <<"arg", Top>>
        /\ \A k \in 1..outs : Current[count + k] = <<"out", Top>>
        /\ Len(stack) = FrameNo(ctl, Top - 1) + 1
    BY <1>3, <1>4, NativeFacts
  <1>6. /\ a \in Activations /\ a.pc = "native" /\ a.top = 0 /\ a.start = 0
        /\ a.outs = outs + 1 /\ a.count = count
    <2>1. ctl[Top].outs + 1 \in 0..(MaxArgs + 2)
      BY <1>3, <1>4, <1>5, SMTT(30)
    <2>2. a \in Activations
      BY <1>1, <1>5, <2>1 DEF Activations
    <2>3. /\ a.pc = "native" /\ a.top = 0 /\ a.start = 0 /\ a.outs = outs + 1 /\ a.count = count
      BY <1>1, <1>3, <1>4, <1>5 DEF Activations
    <2> QED
      BY <2>2, <2>3
  <1>7. <<"out", Top>> \in Slot
    BY <1>5 DEF Slot, Tags
  <1>8. /\ f \in Frame /\ Len(f) = Len(Current) + 1 /\ \A k \in 1..Len(Current) : f[k] = Current[k]
        /\ f[Len(Current) + 1] = <<"out", Top>>
    BY <1>2, <1>5, <1>7, PushFacts
  <1>9. Len(f) = count + outs + 1 /\ f[count + outs + 1] = <<"out", Top>>
        /\ \A k \in 1..(count + outs) : f[k] = Current[k]
    BY <1>5, <1>8
  <1>10. Owns(a) = count + outs + 1 /\ End(a) = count + outs + 1
    <2>1. Owns(a) = a.count + a.outs /\ End(a) = a.top + Owns(a)
      BY <1>6, OwnsFacts
    <2> QED
      BY <1>5, <1>6, <2>1
  <1>11. Holds(a, f, Top)
    <2>1. ASSUME NEW k \in 1..(count + outs + 1) PROVE f[a.top + k] \in Kinds(a, k) \X {Top}
      <3>1. a.top + k = k /\ k \in Nat
        BY <1>5, <1>6
      <3>2. CASE k <= count
        <4>1. k \in 1..count /\ k \in 1..(count + outs)
          BY <1>5, <3>1, <3>2
        <4>2. f[k] = <<"arg", Top>>
          BY <1>5, <1>9, <4>1
        <4>3. Kinds(a, k) = {"arg"}
          BY <1>6, <3>1, <3>2, KindsFacts
        <4>4. f[a.top + k] = <<"arg", Top>>
          BY <3>1, <4>2
        <4> QED
          BY <4>3, <4>4
      <3>3. CASE k > count
        <4>1. Kinds(a, k) = {"out"}
          BY <1>6, <3>1, <3>3, KindsFacts
        <4>2. f[k] = <<"out", Top>>
          <5>1. CASE k = count + outs + 1
            BY <1>9, <5>1
          <5>2. CASE k # count + outs + 1
            <6>1. PICK j \in 1..outs : k = count + j
              <7>1. k - count \in 1..outs /\ k = count + (k - count)
                BY <1>5, <3>3, <5>2
              <7> QED
                BY <7>1
            <6>2. k \in 1..(count + outs)
              BY <1>5, <3>1, <5>2
            <6> QED
              BY <1>5, <1>9, <6>1, <6>2
          <5> QED
            BY <5>1, <5>2
        <4> QED
          BY <3>1, <4>1, <4>2
      <3> QED
        BY <1>5, <3>1, <3>2, <3>3
    <2> QED
      BY <1>9, <1>10, <2>1 DEF Holds
  <1>12. /\ ctl' \in Seq(Activations) /\ AgreeBelow(ctl, ctl', Top) /\ ctl'[Top] = a
    BY <1>3, <1>5, <1>6, ReplaceChain
  <1>13. /\ ctl \in Seq(Activations) /\ stack \in Seq(Frame) /\ stack # <<>>
         /\ Layout(ctl, stack) /\ Books(ctl) /\ Len(ctl) <= MaxDepth
    BY <1>3, CurrentFacts DEF StackSound, StackTypes
  <1>14. /\ stack' \in Seq(Frame) /\ Len(stack') = Len(stack) /\ stack'[Len(stack')] = f
         /\ \A g \in 1..(Len(stack') - 1) : stack'[g] = stack[g] /\ Last(stack') = f
    BY <1>3, <1>8, <1>13, OtherStack
  <1>15. StackSound'
    <2>1. Keeps(a)
      BY <1>3, <1>4, <1>5, <1>6 DEF Keeps
    <2>2. NativeOnTop(ctl, stack, ctl'[Top], stack', Top)
      BY <1>3, <1>5, <1>6, <1>11, <1>12, <1>14, <2>1 DEF NativeOnTop
    <2>3. Layout(ctl', stack') /\ Books(ctl')
      BY <1>5, <1>12, <1>13, <1>14, <2>2, LayoutNative
    <2>4. Len(ctl') <= MaxDepth
      BY <1>5, <1>12 DEF AgreeBelow
    <2> QED
      BY <1>12, <1>14, <2>3, <2>4 DEF StackSound, StackTypes
  <1>16. PeakSound'
    <2>1. Last(stack') = f
      BY <1>3, <1>8, <1>13, OtherStack
    <2>2. Uses(Used(f) + 1, Top) /\ 1 \in Nat
      BY <1>3, <2>1
    <2>3. (count + outs + 1) - count + 1 <= MaxArgs + 14 /\ count + outs + 1 >= count
      <3>1. outs < MaxArgs /\ outs \in Nat /\ count \in Nat /\ MaxArgs \in Nat
        BY <1>3, <1>4, <1>5
      <3> QED
        BY <3>1
    <2>4. Len(f) >= ctl[Top].count /\ Len(f) - ctl[Top].count + 1 <= MaxArgs + 14
      BY <1>4, <1>9, <2>3
    <2>5. \A k \in 1..ctl[Top].count : f[k] = Current[k]
      <3>1. \A k \in 1..count : k \in 1..(count + outs)
        BY <1>5
      <3> QED
        BY <1>4, <1>9, <3>1
    <2>6. Top # 0
      BY <1>5
    <2> QED
      BY <1>3, <1>8, <2>2, <2>4, <2>5, <2>6, PeakOfNative
  <1>17. SeenSound' /\ HostSound'
    BY <1>3, SeenNothing, HostKept
  <1> QED
    BY <1>15, <1>16, <1>17 DEF Sound

LEMMA NativeReturnsStep ==
    ASSUME Sound, NativeReturns
    PROVE  Sound'
  <1>1. /\ HostSound /\ StackSound /\ SeenSound /\ PeakSound /\ booted
        /\ ctl # <<>> /\ ctl[Top].pc = "native"
        /\ ctl' = Front(ctl) /\ stack' = Front(stack)
        /\ Sees(TopN(Current, ctl[Top].outs), <<"out", Top>>) /\ UNCHANGED peak
    BY DEF Sound, NativeReturns, Alive
  <1>2. /\ Top \in Nat \ {0} /\ Top > 1 /\ Top <= MaxDepth /\ Top \in 0..MaxDepth
        /\ Current \in Frame /\ ctl[Top].outs \in Nat /\ ctl[Top].count \in Nat
        /\ Len(Current) = ctl[Top].count + ctl[Top].outs
        /\ \A k \in 1..ctl[Top].outs : Current[ctl[Top].count + k] = <<"out", Top>>
        /\ Len(stack) = FrameNo(ctl, Top - 1) + 1
    BY <1>1, NativeFacts
  <1>3. /\ ctl \in Seq(Activations) /\ stack \in Seq(Frame) /\ stack # <<>>
        /\ Layout(ctl, stack) /\ Books(ctl) /\ Top = Len(ctl)
    BY <1>1, CurrentFacts DEF StackSound
  <1>4. /\ ctl' \in Seq(Activations) /\ Len(ctl') = Top - 1
        /\ \A i \in 1..(Top - 1) : ctl'[i] = ctl[i]
    BY <1>1, <1>2, FrontChain
  <1>5. PICK n, g : n = Top - 1 /\ g = FrameNo(ctl, n)
    OBVIOUS
  <1>6. n \in Nat \ {0} /\ n \in 1..Len(ctl) /\ n <= Len(ctl) /\ n + 1 = Top /\ n <= MaxDepth
    <2>1. MaxDepth \in Nat
      BY DepthFacts
    <2> QED
      BY <1>2, <1>3, <1>5, <2>1
  <1>7. g \in Nat \ {0} /\ Len(stack) = g + 1
    <2>1. g \in Nat \ {0}
      BY <1>5, <1>6, NativesFinite
    <2> QED
      BY <1>2, <1>5, <2>1
  <1>8. /\ stack' \in Seq(Frame) /\ Len(stack') = g /\ \A i \in 1..g : stack'[i] = stack[i]
    <2>1. /\ Front(stack) \in Seq(Frame) /\ Len(Front(stack)) = Len(stack) - 1
          /\ \A i \in 1..(Len(stack) - 1) : Front(stack)[i] = stack[i]
      BY <1>3, FrontLast
    <2>2. Len(stack) - 1 = g
      BY <1>7
    <2> QED
      BY <1>1, <2>1, <2>2
  <1>9. StackSound'
    <2>1. Len(stack[g]) = End(ctl[n])
      <3>1. n \in DOMAIN ctl
        BY <1>3, <1>6
      <3>2. Placed(ctl, stack[g], n)
        BY <1>3, <1>5, <3>1 DEF Layout
      <3>3. ctl[n + 1].pc = "native"
        BY <1>1, <1>6
      <3> QED
        BY <3>2, <3>3 DEF Placed
    <2>2. stack'[g] = stack[g]
      <3>1. g \in 1..g
        BY <1>7
      <3> QED
        BY <1>8, <3>1
    <2>3. Len(ctl') = n /\ n # 0 /\ \A i \in 1..Len(ctl') : ctl'[i] = ctl[i]
      BY <1>4, <1>5, <1>6
    <2>4. Len(stack') = FrameNo(ctl, Len(ctl'))
      BY <1>5, <1>8, <2>3
    <2>5. \A i \in 1..(Len(stack') - 1) : stack'[i] = stack[i]
      <3>1. \A i \in 1..(g - 1) : i \in 1..g
        BY <1>7
      <3> QED
        BY <1>8, <3>1
    <2>6. Len(stack'[Len(stack')]) = IF Len(ctl') = 0 THEN 0 ELSE End(ctl[Len(ctl')])
      BY <1>8, <2>1, <2>2, <2>3
    <2>7. \A k \in 1..Len(stack'[Len(stack')]) : stack'[Len(stack')][k] = stack[Len(stack')][k]
      BY <1>8, <2>2
    <2>8. Len(ctl') <= Len(ctl) /\ Len(ctl') <= MaxDepth
      BY <1>6, <2>3
    <2>9. Layout(ctl', stack') /\ Books(ctl')
      BY <1>3, <1>4, <1>8, <2>3, <2>4, <2>5, <2>6, <2>7, <2>8, LayoutPop
    <2> QED
      BY <1>4, <1>8, <2>8, <2>9 DEF StackSound, StackTypes
  <1>10. SeenSound' /\ HostSound'
    <2>1. PICK outs, count : outs = ctl[Top].outs /\ count = ctl[Top].count
      OBVIOUS
    <2>2. /\ outs \in Nat /\ count \in Nat /\ Len(Current) = count + outs
          /\ \A k \in 1..outs : Current[count + k] = <<"out", Top>>
      BY <1>2, <2>1
    <2>3. ASSUME NEW x \in TopN(Current, outs) PROVE x = <<"out", Top>>
      <3>1. PICK k \in (Len(Current) - outs + 1)..Len(Current) : x = Current[k]
        BY <2>3 DEF TopN
      <3>2. k \in (count + 1)..(count + outs)
        BY <2>2, <3>1
      <3>3. PICK j \in 1..outs : k = count + j
        <4>1. k - count \in 1..outs /\ k = count + (k - count)
          BY <2>2, <3>2
        <4> QED
          BY <4>1
      <3> QED
        BY <2>2, <3>1, <3>3
    <2>4. <<"out", Top>> \in Slot
      BY <1>2 DEF Slot, Tags
    <2>5. TopN(Current, outs) \subseteq {<<"out", Top>>} /\ TopN(Current, outs) \in SUBSET Slot
      BY <2>3, <2>4
    <2>6. Sees(TopN(Current, outs), <<"out", Top>>)
      BY <1>1, <2>1
    <2>7. SeenSound' /\ booted' = booted /\ linked' = linked /\ dead' = dead
      BY <2>4, <2>5, <2>6, SeenOwn
    <2> QED
      BY <1>1, <2>7, HostKept
  <1>11. PeakSound'
    BY <1>1 DEF PeakSound, WithinMinStack
  <1> QED
    BY <1>9, <1>10, <1>11 DEF Sound

-----------------------------------------------------------------------------
(* The invariant holds at the start and is kept. *)

LEMMA EngineInit == Init => EngineInv
  <1> SUFFICES ASSUME Init PROVE EngineInv
    OBVIOUS
  <1>1. /\ ctl = <<>> /\ stack = << <<>> >> /\ peak = [slots |-> 0, nested |-> FALSE]
        /\ seen = [slots |-> {}, own |-> <<"in", 0>>]
        /\ booted = FALSE /\ linked = FALSE /\ dead = FALSE
    BY DEF Init
  <1>2. ModulesTypeOK
    BY SeenInit DEF Init
  <1>3. HostSound
    BY <1>1 DEF HostSound
  <1>4. PeakSound
    <2>1. peak \in [slots : Nat, nested : BOOLEAN] /\ ~(peak.slots > LUA_MINSTACK)
      BY <1>1 DEF LUA_MINSTACK
    <2> QED
      BY <2>1 DEF PeakSound, WithinMinStack
  <1>5. SeenSound
    <2>1. <<"in", 0>> \in Slot
      BY DepthFacts DEF Slot, Tags
    <2> QED
      BY <1>1, <2>1 DEF SeenSound, ReadsOwn
  <1>6. StackSound
    <2>1. Len(ctl) = 0 /\ DOMAIN ctl = {} /\ ctl \in Seq(Activations) /\ Len(ctl) <= MaxDepth
      BY <1>1, DepthFacts
    <2>2. <<>> \in Frame
      BY DEF Frame
    <2>3. stack \in Seq(Frame) /\ Len(stack) = 1
      BY <1>1, <2>2
    <2>4. Layout(ctl, stack)
      BY <1>1, <2>1, <2>3, FirstFrame DEF Layout
    <2>5. Books(ctl)
      BY <1>1, <2>1 DEF Books, Ordered
    <2> QED
      BY <2>1, <2>3, <2>4, <2>5 DEF StackSound, StackTypes
  <1> QED
    BY <1>2, <1>3, <1>4, <1>5, <1>6, SoundNow DEF Sound

LEMMA EngineStep == EngineInv /\ [Next]_vars => EngineInv'
  <1> SUFFICES ASSUME EngineInv, [Next]_vars PROVE EngineInv'
    OBVIOUS
  <1>1. ModulesTypeOK /\ Sound
    BY SoundNow
  <1>2. ModulesTypeOK'
    BY <1>1, StepsOfModules, ModulesTypes
  <1>3. Sound'
    <2>1. CASE UNCHANGED vars
      BY <1>1, <2>1, EditScriptStep DEF vars
    <2>2. CASE \E ok \in BOOLEAN : Initialize(ok)
      BY <1>1, <2>2, InitializeStep
    <2>3. CASE RegModuleFunc
      BY <1>1, <2>3, RegModuleFuncStep
    <2>4. CASE CallScriptFunc
      BY <1>1, <2>4, CallScriptFuncStep
    <2>5. CASE WriteArg
      BY <1>1, <2>5, WriteArgStep
    <2>6. CASE EndCallback
      BY <1>1, <2>6, EndCallbackStep
    <2>7. CASE \E m \in Scripts : ReloadScript(m)
      BY <1>1, <2>7, ReloadScriptStep
    <2>8. CASE \E m \in Scripts : LuaHolds(m)
      BY <1>1, <2>8, LuaHoldsStep
    <2>9. CASE \E m \in Scripts, f \in Functions : EndOutput(m, f)
      BY <1>1, <2>9, EndOutputStep
    <2>10. CASE \E ret \in Returns : LuaReturns(ret)
      BY <1>1, <2>10, LuaReturnsStep
    <2>11. CASE LuaError
      <3>1. booted /\ Raise
        BY <2>11 DEF LuaError, InLua, Alive
      <3> QED
        BY <1>1, <3>1, RaiseStep
    <2>12. CASE \E n \in 0..MaxArgs : LuaCall(n)
      BY <1>1, <2>12, LuaCallStep
    <2>13. CASE \E index \in 0..(MostRead - 1) : Read(index)
      <3>1. PICK index \in 0..(MostRead - 1) : Read(index)
        BY <2>13
      <3>2. index \in Nat
        BY <3>1
      <3> QED
        BY <1>1, <3>1, <3>2, ReadStep
    <2>14. CASE ReadStrRaises
      <3>1. booted /\ Raise
        BY <2>14 DEF ReadStrRaises, Reading, Alive
      <3> QED
        BY <1>1, <3>1, RaiseStep
    <2>15. CASE ReadAborts
      BY <1>1, <2>15, DeadStep DEF ReadAborts
    <2>16. CASE WriteOut
      BY <1>1, <2>16, WriteOutStep
    <2>17. CASE NativeReturns
      BY <1>1, <2>17, NativeReturnsStep
    <2>18. CASE \E m \in Scripts, kind \in {"table", "value", "broken"}, funs \in SUBSET Functions :
                   EditScript(m, kind, funs)
      BY <1>1, <2>18, EditScriptStep DEF EditScript
    <2> QED
      BY <2>1, <2>2, <2>3, <2>4, <2>5, <2>6, <2>7, <2>8, <2>9, <2>10, <2>11, <2>12, <2>13,
         <2>14, <2>15, <2>16, <2>17, <2>18 DEF Next
  <1> QED
    BY <1>2, <1>3, SoundNext

-----------------------------------------------------------------------------
(***************************************************************************)
(* The engine's variables keep their types: the chain of activations, the  *)
(* frames and the counts that the streams keep.                            *)
(***************************************************************************)
THEOREM EngineTypeCorrect == Spec => []TypeOK
  <1>1. EngineInv => TypeOK
    BY DEF EngineInv
  <1> QED
    BY EngineInit, EngineStep, <1>1, PTL DEF Spec

(***************************************************************************)
(* However C++ and Lua call each other, and wherever an error is raised,   *)
(* the Lua stack holds just the slots of the open activations, each where  *)
(* the one below it ends: the ASSERT that the end of CallScriptFunc has    *)
(* commented out would never fail.                                         *)
(***************************************************************************)
THEOREM StackBalanced == Spec => []StackLayout
  <1>1. EngineInv => StackLayout
    BY DEF EngineInv
  <1> QED
    BY EngineInit, EngineStep, <1>1, PTL DEF Spec

(***************************************************************************)
(* What the input streams of LuaCall and of CallScriptFunc's callback read *)
(* and what lua_pcall and a returning C++ function hand to Lua is always   *)
(* the activation's own.                                                   *)
(***************************************************************************)
THEOREM OwnSlots == Spec => []ReadsOwn
  <1>1. EngineInv => ReadsOwn
    BY DEF EngineInv
  <1> QED
    BY EngineInit, EngineStep, <1>1, PTL DEF Spec

(***************************************************************************)
(* With up to six values written at a time the code stays within           *)
(* LUA_MINSTACK wherever no other call is open below in the same frame,    *)
(* although it never calls lua_checkstack.                                 *)
(***************************************************************************)
THEOREM SlotsSuffice == Spec => []WithinMinStack
  <1>1. EngineInv => WithinMinStack
    BY DEF EngineInv
  <1> QED
    BY EngineInit, EngineStep, <1>1, PTL DEF Spec
=============================================================================
