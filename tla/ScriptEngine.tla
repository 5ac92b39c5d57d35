---------------------------- MODULE ScriptEngine -----------------------------
(***************************************************************************)
(* ScriptEngine: C++ calls Lua (CallScriptFunc, ReloadScript), Lua calls   *)
(* the registered C++ functions (LuaCall), and either may call back into   *)
(* the other before it returns, to any depth.  All of it shares one Lua    *)
(* state, and the C++ side finds its arguments and results by counting     *)
(* slots from the bottom or the top of the Lua stack.                      *)
(*                                                                         *)
(* ctl is the chain of open activations: calls of CallScriptFunc and C++   *)
(* functions that Lua called.  stack has one frame per C function that Lua *)
(* called, below them the frame of the host.  A slot is what it holds and  *)
(* the activation that put it there; values are left out.                  *)
(***************************************************************************)
EXTENDS ScriptModules, FiniteSetsExt, SequencesExt

CONSTANTS
    MaxDepth,    \* bound: open activations
    MaxArgs,     \* bound: values an activation writes, arguments Lua passes
    Returns      \* what a script function may return: "result" or "nil" each

LUA_RESULT_COUNT == 8

\* lua.h: the free slots a C function may count on without lua_checkstack.
LUA_MINSTACK == 20

\* ExecGlobalFunction takes the number of arguments, the module's and the function's
\* names included, as an s8: a call with more than 125 of its own is left out.
ASSUME BoundsAssumption ==
    /\ MaxDepth \in Nat \ {0} /\ MaxArgs \in 0..125
    /\ Returns \subseteq Seq({"result", "nil"})

VARIABLES
    booted, linked,   \* Initialize ran, and link.lua defined its functions
    dead,             \* aborted: a failed ASSERT, or a Lua error nobody catches
    ctl,
    stack,
    peak,             \* how many slots of a frame the last step used at most, and
                      \* whether it ran above another open call
    seen              \* slots the last step read or handed to Lua, and whose they should be

engine == <<booted, linked>>
files_and_tables == <<files, tables>>
vars == <<engine, dead, ctl, stack, peak, seen, files_and_tables>>

\* The most that a LuaInputStream offers: arguments or results.
MostRead == IF MaxArgs > LUA_RESULT_COUNT THEN MaxArgs ELSE LUA_RESULT_COUNT

Tags  == {"in", "fun", "trace", "message", "result", "nil", "arg", "out"}
Slot  == Tags \X (0..MaxDepth)
Frame == Seq(Slot)
Activations ==
    [pc : {"output", "run", "callback", "native"},
     top : Nat,                                    \* _topIndex: the slots it found
     outs : 0..(MaxArgs + 2),                      \* _count of the LuaOutputStream
     base : Nat,                                   \* where lua_pcall cuts the frame on an error
     start : Nat, count : 0..MostRead]             \* of the LuaInputStream

TypeOK ==
    /\ ModulesTypeOK
    /\ booted \in BOOLEAN /\ linked \in BOOLEAN /\ dead \in BOOLEAN
    /\ ctl \in Seq(Activations) /\ Len(ctl) <= MaxDepth
    /\ stack \in Seq(Frame) /\ peak \in [slots : Nat, nested : BOOLEAN]
    /\ seen \in [slots : SUBSET Slot, own : Slot]

Init ==
    /\ ModulesInit
    /\ booted = FALSE /\ linked = FALSE /\ dead = FALSE
    /\ ctl = <<>> /\ stack = << <<>> >>
    /\ peak = [slots |-> 0, nested |-> FALSE] /\ seen = [slots |-> {}, own |-> <<"in", 0>>]

-----------------------------------------------------------------------------
(* Who runs, and the Lua stack. *)

Top   == Len(ctl)
Alive == booted /\ ~dead
InLua == Alive /\ ctl # <<>> /\ ctl[Top].pc = "run"
InCpp == Alive /\ ~InLua
Reading == Alive /\ ctl # <<>> /\ ctl[Top].pc \in {"callback", "native"}

\* The number of the frame activation i works in.
FrameOf(i) == 1 + Cardinality({j \in 1..i : ctl[j].pc = "native"})
Current    == Last(stack)
WithFrame(f) == Front(stack) \o <<f>>

Pop(f, n)  == SubSeq(f, 1, Len(f) - n)
TopN(f, n) == {f[k] : k \in (Len(f) - n + 1)..Len(f)}
Slots(tag, owner, n) == [k \in 1..n |-> <<tag, owner>>]

\* Slots a frame offers its C function beside the arguments it was called with.
Used(f) == Len(f) - Cardinality({k \in DOMAIN f : f[k][1] = "arg"})

\* Another call is open below activation i in the frame that i works in.
Nested(i) ==
    /\ i > 1 /\ ctl[i - 1].pc # "native"
    /\ i \in DOMAIN ctl => ctl[i].pc # "native"
Uses(n, i) == peak' = [slots |-> n, nested |-> Nested(i)]

Untouched == /\ seen' = [seen EXCEPT !.slots = {}]
             /\ UNCHANGED <<engine, dead>>
Sees(slots, own) == /\ seen' = [slots |-> slots, own |-> own]
                    /\ UNCHANGED <<engine, dead>>

-----------------------------------------------------------------------------
(* ExecFunction. *)

\* lua_insert(L, -k): the top slot moves to the k-th place from the top.
LuaInsert(f, k) ==
    SubSeq(f, 1, Len(f) - k) \o <<Last(f)>> \o SubSeq(f, Len(f) - k + 1, Len(f) - 1)

(* ExecGlobalFunction puts the function below its arguments, ExecFunction  *)
(* the error handler below the function.                                   *)
Guarded(f, argc, i) ==
    LET withFun == LuaInsert(Append(f, <<"fun", i>>), argc + 1)
    IN  LuaInsert(Append(withFun, <<"trace", i>>), argc + 2)

\* lua_pcall takes the function and its arguments.
Called(g, argc) == Pop(g, argc + 1)

\* Mutant: the error path forgets the handler.
KeepsHandler(f) == Pop(f, 1)

\* An error: lua_pcall has left the message above the handler, ExecFunction pops both.
AfterError(f) == Pop(f, 2)

Results(ret, i) ==
    [k \in 1..LUA_RESULT_COUNT |-> <<IF k <= Len(ret) THEN ret[k] ELSE "nil", i>>]

\* Mutant: the callback's results stay on the stack.
KeepsResults(f) == Pop(f, 1)

\* Mutant: a stream over the whole frame.
FromBottom(f) == 0

\* LuaInputStream over the results: _start.
ResultStart(f) == Len(f) - LUA_RESULT_COUNT

\* Mutant: the scan counts what the script returned.
CountsReturned(ret) == Len(ret)

\* _count: up to the first nil among the slots -LUA_RESULT_COUNT .. -1.
ResultCount(ret) ==
    Max({n \in 0..LUA_RESULT_COUNT : n <= Len(ret) /\ \A k \in 1..n : ret[k] # "nil"})

AfterCallback(f) == Pop(Pop(f, LUA_RESULT_COUNT), 1)

-----------------------------------------------------------------------------
(* The module's start, and the functions it registers. *)

\* ExecScriptFile("link"): there is no error handler yet, so none to pop.
ExecScriptFile(f, ok) ==
    IF ok THEN Pop(f \o Results(<<"result">>, 0), LUA_RESULT_COUNT)
    ELSE Pop(Append(f, <<"message", 0>>), 1)

\* Initialize returns true whether link.lua was loaded or not.
Initialize(linkOk) ==
    /\ ~booted
    /\ booted' = TRUE /\ linked' = linkOk
    /\ stack' = WithFrame(ExecScriptFile(Current, linkOk))
    /\ Uses(LUA_RESULT_COUNT, 0)
    /\ UNCHANGED <<dead, ctl, seen, files_and_tables>>

\* package, its modules, the module's table, the name and the function, all popped again.
RegModuleFunc ==
    /\ InCpp
    /\ Register
    /\ Uses(Used(Current) + 5, Top)
    /\ Untouched
    /\ UNCHANGED <<ctl, stack>>

-----------------------------------------------------------------------------
(* CallScriptFunc. *)

Caller == [pc |-> "output", top |-> Len(Current), outs |-> 2,
           base |-> 0, start |-> 0, count |-> 0]

\* PreCall writes the module and the function; then outPutFunc runs.
CallScriptFunc ==
    /\ InCpp /\ Top < MaxDepth
    /\ ctl' = Append(ctl, Caller)
    /\ stack' = WithFrame(Current \o Slots("in", Top + 1, Caller.outs))
    /\ Uses(Used(Last(stack')), Top + 1)
    /\ Untouched
    /\ UNCHANGED files_and_tables

WriteArg ==
    /\ InCpp /\ ctl # <<>> /\ ctl[Top].pc = "output" /\ ctl[Top].outs < MaxArgs + 2
    /\ ctl' = [ctl EXCEPT ![Top].outs = @ + 1]
    /\ stack' = WithFrame(Append(Current, <<"in", Top>>))
    /\ Uses(Used(Last(stack')) + 1, Top)           \* WritePtr fills a table
    /\ Untouched
    /\ UNCHANGED files_and_tables

\* ExecGlobalFunction: ASSERT(false, "error, don't find function").  The Linux build never
\* defines NDEBUG, so this aborts; a Windows release would go on with the arguments left
\* on the stack, which is left out here as for every other ASSERT.
FindsNoLink ==
    /\ ~linked
    /\ dead' = TRUE
    /\ UNCHANGED <<engine, ctl, stack, peak, seen, files_and_tables>>

(* lua_pcall of link.lua's call: it requires the module and looks the      *)
(* function up, which runs or, if there is none, fails in call itself.     *)
Call(m, f) ==
    LET g == Guarded(Current, ctl[Top].outs, Top)
        c == Called(g, ctl[Top].outs)
    IN  /\ linked
        /\ IF RequireFails(m) THEN UNCHANGED <<loaded, latest>> ELSE Require(m)
        /\ IF Finds(m, f)
           THEN /\ ctl' = [ctl EXCEPT ![Top].pc = "run", ![Top].base = Len(c)]
                /\ stack' = WithFrame(c)
           ELSE /\ ctl' = Front(ctl)
                /\ stack' = WithFrame(AfterError(Append(c, <<"message", Top>>)))
        /\ Uses(Used(g), Top)
        /\ Sees(TopN(g, ctl[Top].outs), <<"in", Top>>)
        /\ UNCHANGED <<files, held, failed>>

EndOutput(m, f) ==
    /\ InCpp /\ ctl # <<>> /\ ctl[Top].pc = "output"
    /\ FindsNoLink \/ Call(m, f)

\* The function returns: its results, padded or cut to LUA_RESULT_COUNT, and the callback runs.
LuaReturns(ret) ==
    LET f == Current \o Results(ret, Top)
    IN  /\ InLua
        /\ stack' = WithFrame(f)
        /\ ctl' = [ctl EXCEPT ![Top].pc = "callback", ![Top].start = ResultStart(f),
                              ![Top].count = ResultCount(ret)]
        /\ Uses(Used(f), Top)
        /\ Untouched
        /\ UNCHANGED files_and_tables

EndCallback ==
    /\ InCpp /\ ctl # <<>> /\ ctl[Top].pc = "callback"
    /\ ctl' = Front(ctl)
    /\ stack' = WithFrame(AfterCallback(Current))
    /\ Uses(Used(Current), Top)
    /\ Untouched
    /\ UNCHANGED files_and_tables

\* The whole of ReloadScript: no callback, and the results are popped at once.
ReloadScript(m) ==
    LET g == Guarded(Append(Current, <<"in", Top + 1>>), 1, Top + 1)
        c == Called(g, 1)
        r == c \o Results(<<>>, Top + 1)
    IN  /\ InCpp /\ Top < MaxDepth
        /\ \/ FindsNoLink
           \/ /\ linked
              /\ \/ /\ ReloadSucceeds(m)
                    /\ stack' = WithFrame(AfterCallback(r))
                    /\ Uses(Used(r), Top + 1)
                 \/ /\ ReloadFails(m)
                    /\ stack' = WithFrame(AfterError(Append(c, <<"message", Top + 1>>)))
                    /\ Uses(Used(g), Top + 1)
              /\ Sees(TopN(g, 1), <<"in", Top + 1>>)
              /\ UNCHANGED ctl

-----------------------------------------------------------------------------
(* Lua code: it keeps modules, fails, and calls C++. *)

(* An error in Lua, or raised in C++ by the Lua API, goes to the newest    *)
(* open lua_pcall; the C++ activations above it just vanish.  Without one  *)
(* Lua panics.                                                             *)
Raise ==
    LET running == {j \in DOMAIN ctl : ctl[j].pc = "run"}
        j == Max(running)
        f == Append(SubSeq(stack[FrameOf(j)], 1, ctl[j].base), <<"message", j>>)
    IN  IF running = {}
        THEN /\ dead' = TRUE
             /\ UNCHANGED <<engine, ctl, stack, peak, seen, files_and_tables>>
        ELSE /\ ctl' = SubSeq(ctl, 1, j - 1)
             /\ stack' = Append(SubSeq(stack, 1, FrameOf(j) - 1), AfterError(f))
             /\ Uses(Used(f), j)
             /\ Untouched
             /\ UNCHANGED files_and_tables

LuaError == InLua /\ Raise

LuaHolds(m) ==
    /\ InLua
    /\ Hold(m)
    /\ Untouched
    /\ UNCHANGED <<ctl, stack, peak>>

\* LuaCall: input and output streams over the new frame.
LuaCall(n) ==
    /\ InLua /\ Top < MaxDepth
    /\ ctl' = Append(ctl, [pc |-> "native", top |-> 0, outs |-> 0, base |-> 0,
                           start |-> 0, count |-> n])
    /\ stack' = Append(stack, Slots("arg", Top + 1, n))
    /\ peak' = [slots |-> 0, nested |-> FALSE]
    /\ Untouched
    /\ UNCHANGED files_and_tables

-----------------------------------------------------------------------------
(* C++ code with an input stream: a registered function or a callback. *)

(* One of the Read functions.  The stream's _index is left out: it goes up *)
(* with every read and Reset takes it back, so it may be anywhere.         *)
Read(index) ==
    LET a == ctl[Top]
    IN  /\ Reading /\ index < a.count
        /\ Sees({Current[a.start + index + 1]},
                <<IF a.pc = "native" THEN "arg" ELSE "result", Top>>)
        /\ Uses(Used(Current) + 1, Top)             \* ReadStr and ReadPtr push one more
        /\ UNCHANGED <<ctl, stack, files_and_tables>>

\* ReadStr of a value that has no length: lua_len raises an error.
ReadStrRaises ==
    /\ Reading /\ ctl[Top].count > 0
    /\ Raise

\* A read past _count, of a pointer of another type, of a string that is none: ASSERT.
ReadAborts ==
    /\ Reading
    /\ dead' = TRUE
    /\ UNCHANGED <<engine, ctl, stack, peak, seen, files_and_tables>>

WriteOut ==
    /\ Alive /\ ctl # <<>> /\ ctl[Top].pc = "native" /\ ctl[Top].outs < MaxArgs
    /\ ctl' = [ctl EXCEPT ![Top].outs = @ + 1]
    /\ stack' = WithFrame(Append(Current, <<"out", Top>>))
    /\ Uses(Used(Last(stack')) + 1, Top)           \* WritePtr fills a table
    /\ Untouched
    /\ UNCHANGED files_and_tables

\* return output.Count(): the top slots of the frame are the results.
NativeReturns ==
    /\ Alive /\ ctl # <<>> /\ ctl[Top].pc = "native"
    /\ ctl' = Front(ctl)
    /\ stack' = Front(stack)
    /\ Sees(TopN(Current, ctl[Top].outs), <<"out", Top>>)
    /\ UNCHANGED <<peak, files_and_tables>>

EditScript(m, kind, funs) ==
    /\ ~dead
    /\ EditFile(m, kind, funs)
    /\ UNCHANGED <<engine, dead, ctl, stack, peak, seen>>

-----------------------------------------------------------------------------
Next ==
    \/ \E ok \in BOOLEAN : Initialize(ok)
    \/ RegModuleFunc \/ CallScriptFunc \/ WriteArg \/ EndCallback
    \/ \E m \in Scripts : ReloadScript(m) \/ LuaHolds(m) \/ \E f \in Functions : EndOutput(m, f)
    \/ \E ret \in Returns : LuaReturns(ret)
    \/ LuaError \/ \E n \in 0..MaxArgs : LuaCall(n)
    \/ \E index \in 0..(MostRead - 1) : Read(index)
    \/ ReadStrRaises \/ ReadAborts \/ WriteOut \/ NativeReturns
    \/ \E m \in Scripts, kind \in {"table", "value", "broken"}, funs \in SUBSET Functions :
          EditScript(m, kind, funs)

Spec == Init /\ [][Next]_vars

-----------------------------------------------------------------------------
(* Properties. *)

\* How many slots an activation has on its frame, at the place it has reached.
Owns(a) ==
    CASE a.pc = "output"   -> a.outs
      [] a.pc = "run"      -> 1
      [] a.pc = "callback" -> 1 + LUA_RESULT_COUNT
      [] a.pc = "native"   -> a.count + a.outs

\* What the k-th of them may be.
Kinds(a, k) ==
    CASE a.pc = "output" -> {"in"}
      [] a.pc = "native" -> IF k <= a.count THEN {"arg"} ELSE {"out"}
      [] a.pc \in {"run", "callback"} /\ k = 1 -> {"trace"}
      [] OTHER -> IF k <= a.count + 1 THEN {"result"} ELSE {"result", "nil"}

End(a) == a.top + Owns(a)

\* Activation i is the newest in its frame.
Newest(i) == i = Top \/ ctl[i + 1].pc = "native"

(***************************************************************************)
(* CallScriptFunc and ReloadScript leave the Lua stack as they found it,   *)
(* on every path: a frame is just what its open activations have put on    *)
(* it, each from the slot where the one before it ends, and the host's     *)
(* frame is empty when there are none.  The code has this check commented  *)
(* out (ASSERT(top == nowTop, "stack error"), end of CallScriptFunc); a    *)
(* slot too few or too many shifts what the callers below read.            *)
(***************************************************************************)
StackLayout ==
    /\ Len(stack) = FrameOf(Top)
    /\ ctl = <<>> => stack = << <<>> >>
    /\ \A i \in DOMAIN ctl :
          LET frame == stack[FrameOf(i)]
          IN  /\ ctl[i].top = IF i = 1 \/ ctl[i].pc = "native" THEN 0 ELSE End(ctl[i - 1])
              /\ Newest(i) => Len(frame) = End(ctl[i])
              /\ \A k \in 1..Owns(ctl[i]) :
                    /\ ctl[i].top + k <= Len(frame)
                    /\ frame[ctl[i].top + k] \in Kinds(ctl[i], k) \X {i}

(***************************************************************************)
(* However deep the calls nest, what C++ reads as its arguments or results *)
(* and what it hands to Lua as arguments or results are its own: no value  *)
(* of an outer call, no nil padding, no handler.                           *)
(***************************************************************************)
ReadsOwn == seen.slots \subseteq {seen.own}

(***************************************************************************)
(* The code never calls lua_checkstack.  What it does while at most one    *)
(* call is open in a C function's frame, and writes up to six values at a  *)
(* time, stays within the slots Lua guarantees; above another open call it *)
(* can exceed them.                                                        *)
(***************************************************************************)
WithinMinStack == MaxArgs <= 6 /\ peak.slots > LUA_MINSTACK => peak.nested

-----------------------------------------------------------------------------
(***************************************************************************)
(* The inductive invariant.  What an activation keeps about its place on   *)
(* the stack stays true under whatever runs above it.                      *)
(***************************************************************************)
Keeps(a) ==
    /\ a.pc = "run" => a.base = a.top + 1
    /\ a.pc = "callback" => a.start = a.top + 1 /\ a.count <= LUA_RESULT_COUNT
    /\ a.pc = "native" => a.start = 0 /\ a.outs <= MaxArgs

Bookkeeping ==
    /\ ~booted => ctl = <<>>
    /\ ctl # <<>> => ctl[1].pc # "native"
    /\ \A i \in DOMAIN ctl : Keeps(ctl[i])
    /\ \A i, j \in DOMAIN ctl : i < j /\ FrameOf(i) = FrameOf(j) => End(ctl[i]) <= ctl[j].top

EngineInv == TypeOK /\ StackLayout /\ Bookkeeping /\ ReadsOwn /\ WithinMinStack
=============================================================================
