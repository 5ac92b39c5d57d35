# SeedCore: TLA+ models of the server modules

SeedCore is a set of C++ modules for a game server kernel ("GridSeed"). The
kernel comes as a library; the repository holds the modules `MysqlMgr`,
`RedisMgr` and `ScriptEngine` under `logic/Core`, their interfaces under
`logic/Interface`, and a `UnitTest` module that exercises them. This directory
models the three modules and the byte ring of the kernel's headers, checks the
models with TLC on small instances and proves the main results about them with
TLAPS for every instance.

`PROJECT.json` is the index: components, runs, mutants, the map from each
definition to the source lines it stands for, findings, hazards, theorems.

## 1. Inventory

### MysqlMgr (`logic/Core/MysqlMgr`)

*State.* A map from connection name to a vector of `DBConnection`s (index 0 for
the main thread, 1..`_asyncConnectionNum` for the workers), a profile with the
counts of bases created and released, and one `MysqlBase` per pushed handler
with the result or the error of its execution.

*Operations.* `LoadConfigFile`; `PushMysqlHandler(id, handler, name)` on the
main thread; `MysqlBase::OnExecute` on a worker, then `OnSuccess`/`OnFailed` and
`OnRelease` on the main thread; `ExecSqlInAsyncThread` and
`EscapeStringExInAsyncThread` for handlers of other modules that run on the same
workers; the escape call of the main thread.

*Interaction.* The kernel's asynchronous queue: one FIFO per thread index; a
worker drains its own, and the main loop delivers what finished.

*Hard.* Interleaving of pushes, workers, foreign handlers and callbacks (callbacks
push again); a connection without a lock; `mysql_errno` and
`mysql_store_result`, which speak of the last command of a *connection*.

*Correct when* handlers of one id execute in push order, one thread at a time
uses a connection, a handler is told its own outcome, every accepted handler is
notified and released, and the counts of the profile are exact.

### DBConnection (`DBConnection.cpp`)

*State.* A client-library handle and `_traceInfo`. *Operations.* `execute` (query,
on failure `isActive` and one more query), `EscapeStringEx`, `isActive` (ping,
then a ping loop of up to 30 minutes, then `reopen`), `open`.

*Hard.* The link or the server fails between any two library calls; a statement
may have run although its answer was lost; an unread result set blocks the
handle. *Correct when* a statement runs at most twice, and twice only after a
failure; success means that the result set waiting is this statement's; every
call ends; the connection comes back after the server does.

### MysqlResult (`MysqlBase.cpp`, `MysqlBase.h`)

The rows of a result set and, per row, a pointer to field lengths. *Correct when*
every row is there and the lengths `GetBuff` reports are those of its row.

### RedisMgr (`logic/Core/RedisMgr`)

*State.* One hiredis context for the main thread and `connectnum` for the
workers; per connection a lock-free list of asynchronous commands and the flag
`_postTask`; a command buffer with its length in front.

*Operations.* `Initialize` with `CreateRedisContext` and AUTH; some 45 `Sync`
calls, each of which builds a command, sends it (`redisBufferWriteInner`), reads
a reply (`redisGetReplyInner`) and interprets it (`RedisResult`); a reconnect
and resend after an I/O error; 15 `Async` calls that queue a command per task id
for a worker to send in batches.

*Hard.* Replies are matched to commands by position only; contexts have no lock;
partial and interrupted sends; lost links; replies of an unexpected type; out
parameters that already hold something.

*Correct when* each call gets its own reply, no call waits for ever, all bytes of
a command are sent once and in order, codes and out parameters agree with what
the server stores, and each queued command is sent.

### ScriptEngine (`logic/Core/ScriptEngine`, `Config/envir/script/link.lua`)

*State.* One Lua state with its stack, and what Lua has loaded.

*Operations.* `Initialize` loads `link.lua`; `RegModuleFunc` makes a C++ function
callable from Lua; `CallScriptFunc` pushes module, function and arguments, calls
`link.lua`'s `call` under an error handler and gives eight result slots to a
callback; `LuaCall` runs a C++ function for Lua; `ReloadScript` calls `link.lua`'s
`reload`, which loads a script again and copies its functions into the old table.

*Hard.* C++ and Lua call each other to any depth on one stack: from an output
function, a callback or a registered function. Streams address slots by absolute
place or from the top. Errors come from Lua code, from `link.lua`, or from the
Lua API inside C++, and then jump over C++ frames. Script files change while the
program runs.

*Correct when* every path leaves the stack as it found it, nobody reads or hands
over another activation's slots, and a reload is seen by all who use the module.

### CircularBuffer (`GridSeed/include/CircularBuffer.h`)

A byte ring for one producer and one consumer thread without a lock: 32-bit
counters, a copying and a lending way to write and to read. *Correct when* it is a
bounded FIFO across the counters' wrap, whatever moment either side reads the
other's counter.

### Kernel, libraries, tests

The kernel, hiredis, the MySQL client, Lua and folly are third party: the models
contain what the code above uses of them, marked external. `UnitTest` and the
interfaces' comments are used as statements of what the modules should do.

## 2. Modules

| Module | Models | State and actions |
|---|---|---|
| `MysqlMgr` | `MysqlMgr.cpp`, `MysqlBase` and the kernel's queue | `hstate` is a handler's life from push to delete; `worker`, `sqlAt`, `issued`, `ret` are a worker's stack; `unread` and `errOf` are what a connection would answer to `mysql_store_result` and `mysql_errno`, as tickets that name the statement. An action per call and per return. |
| `MCMysqlMgr` | instance for TLC | |
| `HandlerService` | abstract: what `PushMysqlHandler` promises | jobs with a key; a job's stage, key and rank |
| `MysqlMgr_proofs` | theorems about `MysqlMgr` | |
| `DBConnection`, `DBConnection_proofs` | `DBConnection.cpp` | `pc` walks through `execute`, `InnerExecute`, `isActive` and `reopen`; each call into the client library is a step; the environment breaks the link (also under an unread result set), stops and starts the server; `StoreResult` takes a result set, or finds it lost with the link. |
| `MysqlConfig`, `MysqlConfig_proofs` | `LoadConfigFile` | each loop and each return of the function is a step or a disjunct |
| `MysqlResult` | `MysqlResult::Init`, `FiledRow` | operators: the loop over rows as a fold, with the library's one array of lengths; used by `DBConnection` |
| `RedisMgr`, `RedisMgr_proofs` | `RedisMgr.cpp`: contexts and synchronous calls | per thread the position in `execCmd`; per context the socket's two directions, as FIFOs of tickets |
| `RedisSyncCall`, `RedisSyncCall_proofs` | `RedisSyncCall.cpp`, `RedisResult` | an action per wrapper: the command, an external model of the server, the interpretation of the reply into out parameters that begin filled; the link may be lost before or after the command is executed |
| `RedisWrite` | `redisBufferWriteInner` | the loop's length and pointer, and the positions whose bytes were sent |
| `RedisWrite_proofs` | theorems about `RedisWrite` | |
| `RedisAsync` | `addAsyncTask`, `OnExecRedisTask`, `RedisAsyncCall.cpp` | lists, flags and the posted handlers; an `Async` call is one action, a command is its number |
| `CircularBuffer`, `MCCircularBuffer`, `CircularBuffer_proofs` | `CircularBuffer.h` | the bytes and the two counters; producer and consumer each with a position in their call. Each read of the other's counter, each `memcpy` and each counter update is a step |
| `BoundedQueue` | abstract: a FIFO of limited capacity | the queue, what the producer is about to put, what the consumer is shown, and whether it was told of more |
| `ScriptModules` | `call` and `reload` of `link.lua`, `require` | for each script the file, the loaded table and the table other scripts hold |
| `ScriptEngine`, `MCScriptEngine`, `ScriptEngine_proofs` | `ScriptEngine.cpp`, `LuaInterchange.cpp` | `ctl` is the chain of open activations; `stack` has a frame per C function and in it slots, each with its kind and owner; `peak` and `seen` record the slots the last step used, whether it was nested in its frame, and what it read |

How they fit together: `MysqlMgr` treats `execute()` as a call that returns, and
that drops whatever result set was unread; both are what `DBConnection` shows
(`CallReturns`, `SuccessIsOwnResult`). `MysqlMgr` assumes
`1 <= _asyncConnectionNum <= threads`, which is `MysqlConfig`'s
`DivisorUnlessZero`. `RedisMgr` sends a command in one step; that this is what
the write loop amounts to, interrupts apart, is `RedisWrite`'s. `RedisSyncCall` has
one caller; that callers do not get each other's replies is `RedisMgr`'s.
The pairs are joined by these properties.

Two are joined by refinement. `ImplementsService` maps `MysqlMgr` to
`HandlerService`: the stage of a job is its handler's `hstate`
(one that is being released counts as released), its key the id and its rank the
number of its push; queues, workers, connections and foreign handlers are hidden.
`RefinesQueue` maps `CircularBuffer` to `BoundedQueue`: the
queue is the bytes between the two counters, and what is shown is the consumer's
copy, or the bytes that now lie under the view it was lent, as far as that lies in
the ring. The consumer may be done with what it was shown and no more, but for the
slice of a raced `GetCanReadBuff`, whose length is too long (`overtold`): what its
caller reads behind the ring is outside the refinement, and `ViewInRing` says exactly
when that can be. The capacity is the size asked for.
The ring's model assumes that one thread's loads and one thread's stores stay in order, as on x86, where the code's fences only bind the compiler;
on a machine with weaker order the reader's side has no acquire fence.

A `MysqlBase` is identified with its handler, because a handler can be pushed once
in its life: `PushMysqlHandler` asserts that no base is set and nothing resets it.
Strings are the empty one, numbers or opaque texts; time is ticks.

## 3. Runs

Each property has a mutant, a slip in the mapped code with which TLC finds the
property violated under the same configuration.

| Run | Checks | Bounds |
|---|---|---|
| `mysql_handlers` | `SameIdInOrder`, `OneThreadPerConnection`, `OutcomeIsOwn`, `BasesAccounted`, `PushedIsReleased`, `ImplementsService` | 2 handlers, ids -1 and 0, 2 connections, 3 threads, foreign handlers on threads 1 and 3, 1 statement each |
| `connection` | `AtMostTwice`, `TwiceOnlyAfterOutage`, `SuccessIsOwnResult`, `RowsComplete`, `LastRowIsExact`, `CallReturns`, `Recovers` | 3 calls, 3 outages, a time-out of 2 ticks, up to 2 rows of 1 field, lengths 0, 1 and NULL |
| `mysql_config` | `IndexInRange`, `DivisorUnlessZero` | up to 2 elements over 2 names, numbers -1..2 |
| `redis_sync` | `ReplyIsOwn`, `OneInFlight`, `CallReturns` | main thread and 2 workers, 2 connections, 2 calls per thread, 2 outages, a server with a password |
| `redis_commands` | `ReadsAgree`, `WritesAgree`, `RefusalIsReported`, `CrashExactlyOnEmptyMap` | 1 key of any type, 2 fields, lists of up to 2, integers -1..1, a `size_t` of 8 values |
| `redis_write` | `AllSent`, `PrefixUnlessInterrupted` | 4 bytes, 2 interrupts |
| `circular_buffer` | `RefinesQueue`, `ViewInRing` | sizes 0, 3 and 4, bytes 0 and 1, writes of up to 3, reads of up to 4, counters modulo 16 |
| `script_engine` | `StackLayout`, `ReadsOwn`, `WithinMinStack`, `ReloadIsSeen` | 3 open activations, 1 argument, 4 kinds of result list, 1 script with 1 function, 3 edits |
| `redis_resend` | `ResentBeforeGivenUp`, violated | 1 worker, 1 outage |
| `redis_auth` | `AuthFailureIsReal`, violated | 1 worker |
| `redis_write_interrupted` | `WireIsCommand`, violated | 4 bytes, 2 interrupts |
| `redis_async` | `AddedIsSent`, violated | 2 tasks, 2 connections |

Why the bounds are enough. In `mysql_handlers` two handlers can share an id, a
queue or nothing, the negative id wraps to the other queue than 0 (`Word` is 16
in place of 2^64: what matters is that it is even and larger than the ids),
thread 1 is shared with foreign handlers, and thread 3 has no connection, so that
`CheckThreadIdx` fails. Larger numbers of handlers, threads and statements are
covered by the proofs. In `connection`, a call can leave the handle in each of
its five states, a second can suffer from it and a third recover; an outage can
hit before, during and after each. In `redis_sync` an outage is a link that breaks
or a reply that is not the protocol's (which puts the context in error while its link
stands); two of them can hit one call twice, two threads, or a call and the one after
it. What the server demands decides AUTH's answer at start-up and nothing about the
calls after it, so one kind of server will do there; the two violated runs have all
three. In `redis_commands` every
wrapper meets every type of key; commands touch one key, apart from `MGet` and
`MSet`, which loop; a `size_t` of 8 values counts the elements of any reply and shows
where `elements - 1` wraps.

In `circular_buffer` the counters wrap in four rounds of the ring of 4 and every
fill level meets every offset; size 3 is the one that is rounded, to a size with which
the constructor fails. In
`script_engine` three activations are the fewest with which a frame passes
Lua's guarantee and with which a call, a C++ function in it and a call in that can
be open at once; the result lists are empty, of one value, with a nil in front,
and one longer than is kept; three edits make a script, break it and mend it.

`CHECK_DEADLOCK FALSE` is set where the bounded callers run out of calls or where
the process has ended (an `ASSERT`, a failed start-up), and where the model is
one function that returns.

### Fairness

* `MysqlMgr`: weak fairness of a worker's return from `execute()` (by
  `DBConnection`'s `CallReturns`), of the handlers' end and of the main loop's
  delivery. Strong fairness of `OnExecuteBegin`: the kernel's queue is one FIFO
  per worker, shared with foreign handlers, so a worker that keeps finishing
  handlers comes to the one at the head; the model leaves out the foreign entries
  of that FIFO, and weak fairness would allow them to overtake for ever.
* `DBConnection`: weak fairness of the calling thread and of time, so that every
  call into the client library returns, with or without success. `open()` sets no read
  time-out: a peer that keeps the link and stays silent would hold `mysql_real_query`
  or `mysql_ping`, and that is left out. Nothing else is assumed of the server, which
  may stay away for ever: `Recovers` says what follows if it stays up.
* `RedisMgr`: weak fairness of the calling threads, and of a server whose link is
  up. Contexts have a time-out for connecting and none for reading, so a
  server that keeps the link and never answers does block a thread; the model leaves
  that out, and notices a broken link at the next read or write.
* `RedisAsync`: weak fairness of the worker that runs posted handlers.

## 4. Proofs

Every theorem holds for any value of the constants that satisfies the named
assumptions of the component's module (finite sets where something is counted,
natural numbers for bounds, markers such as `None` outside the sets they mark).
An invariant that a run checks is seldom inductive; each section says what
was added and why.

### `MysqlMgr_proofs`

For any handlers, ids, names, connections, threads, foreign workers and statements
per handler, with at least one connection and not more than threads:
`TypeCorrect` (`TypeOK`), `ExecutionOrder` (`SameIdInOrder`), `ProfileIsExact`
(`BasesAccounted`), `OutcomeOwnership` (`OutcomeIsOwn`), `ConnectionExclusion`
(`OneThreadPerConnection`), `ServiceImplemented` (`ImplementsService`).

`SameIdInOrder` is not inductive: it says nothing of the queues. `OrderInv` adds
that a pushed handler's thread is the one its id selects (`JobsPlaced`), a queue
holds exactly the queued handlers of its thread (`QueuesHoldQueued`,
`QueuedAreInQueues`) in the order of their push numbers (`QueuesSorted`), a
worker runs only a handler of its own thread (`WorkersExecute`), and order holds
per thread (`InOrder`), which is stronger than per id and is what the step that
takes the head of a queue preserves.

`OutcomeIsOwn` needs `OwnerInv`: a worker is inside `execute()` of a connection of
its own thread only (`SqlOnOwnThread`, also the reason for
`OneThreadPerConnection`), of the running handler's connection if it runs one
(`SqlOfRunning`), the statement count is reset between handlers (`IdleIsReset`),
and once the running handler has issued a statement its connection speaks of
that statement or of none (`ConnectionSpeaksOfOwner`). The last fact survives the
steps of other workers because those use other connections.

`ProfileIsExact` rests on lemmas about the cardinality of the set of live handlers
when one enters, leaves or stays.

`ServiceImplemented` is the refinement to `HandlerService`, action by action. A
push, a start, an end and a release map to the service's steps and the rest to
stuttering. The start is where `OrderInv` is used: the head of a queue is the
oldest waiting job of its key because queues are sorted and hold all that wait.

### `DBConnection_proofs`

For any number of calls, outages and ticks and any time-out: `CallTypeCorrect`
(`TypeOK`), `OneRetry` (`AtMostTwice`), `RerunMeansOutage`
(`TwiceOnlyAfterOutage`), `ResultOwnership` (`SuccessIsOwnResult`), `NoRowLost`
(`RowsComplete`), `LastRowLengths` (`LastRowIsExact`). `CallInv` says what each
point of the call knows: which operation is under way (`CallPoints`), how often its
statement can have run by then and that a first run counts an outage before there is
a second (`RunsCounted`), whose set the handle holds and that a set whose link broke
saw an outage (`HandleOwnsSet`), and which set the stored result was made from
(`ResultOfSet`).

`InitKeepsRows` is about the loop of `MysqlResult::Init` for a set of any number of
rows: all rows in their order and the field lengths of the last. The loop's state
after k rows has a closed form (`LoopState`), and a least counterexample, which
exists by well-foundedness, replaces the induction that the provers cannot do.

### `MysqlConfig_proofs`

For any names, elements and numbers: `ConfigTypeCorrect` (`TypeOK`),
`ConnectionsMatch` (`IndexInRange`), `DivisorInRange` (`DivisorUnlessZero`).
`ConfigInv` adds that the name being opened has the connections up to `i`
(`Opening`), that every other name in the map is complete (`OthersComplete`)
and that the default was found before the function goes on (`DefaultFound`).
`DivisorInRange` is what `MysqlMgr` assumes of its constants.

### `RedisMgr_proofs`

`RedisTypeCorrect` (`TypeOK`) holds for any threads and contexts, from `TypeInv`.
`ReplyPairing` (`ReplyIsOwn`) and `SocketsCarryOneCall` (`OneInFlight`) have the
hypothesis `ThreadNum <= ConnectNum`: without it two threads share a context that
has no lock and both fail, as section 5 says. `CallInv` says that no call is open before
start-up is done (`QuietBeforeCalls`), that a context whose link is down or that is
in error carries nothing (`DownIsSilent`), that the reconnect is not reached (`NeverReattempts`), that what
is written belongs to the call that writes (`WritesOwn`), and that all that is
under way on a socket belongs to the call that is on it (`InFlightOwned`).

### `RedisSyncCall_proofs`

`RefusalsReported` (`RefusalIsReported`), for any keys, fields and values: a case
for each of the wrappers, from what the server answers to a key of the wrong
type and what `RedisResult` makes of an error reply.

`SyncTypeCorrect` (`TypeOK`), `ReadsMatchStore` (`ReadsAgree`), `WritesMatchStore`
(`WritesAgree`) and `CrashesExactlyOnEmptyMap` (`CrashExactlyOnEmptyMap`), for any
keys, any finite set of fields, any bounds and any `size_t` that can count a reply's
elements. `WritesAgree` is an action property: it compares the keys before a call with
those after it, for every wrapper by its name (the amount of an increment, the end and
the order of a push, the fields and members that came and went), and says that a read
changes none. `CrashesExactlyOnEmptyMap` is about the loop bound of `ParseStringMap`:
`LoopFacts` works out which indexes the loop takes for `elements - 1` modulo `Word`, and
that they pass the end for no reply but the empty one. What must be carried from call
to call is the shape of the keys:
the inductive invariant `SyncInv` adds `StoreFormed` (every key holds a value of one
type, nothing remains of an older one, and only a string has a text), which is what
makes the empty string `MGet` hands out for a key of another type the right one. A lemma for each command
says what the server makes of a well-formed key and what it replies (`...Served`);
another what the reply leaves in the out parameters (`Interpreted`, `ArrayResult`);
`CallSound` puts the two together, whether the link holds or is lost before or after
the command. The replies of
`HGETALL`, `HKEYS`, `HVALS` and `SMEMBERS` come in an order of the server's choice:
`OrderFacts` says that it has each element once. That the fields are finitely many is
what makes their count a number, and that no field is called `"nil"` only keeps their
names apart from the model's mark for no string.

### `RedisWrite_proofs`

For any command length and any number of interrupts:
`WriteTypeCorrect`, `WriteSendsAll` (`AllSent`), `WritePrefix`
(`PrefixUnlessInterrupted`). The inductive invariant `WriteInv` adds that pointer and
length meet at the command's end (`MeetAtEnd`), every byte before the pointer was
sent (`SentBefore`), the pointer retreats at most once per interrupt (`Retreat`), and
without interrupts the wire is the prefix before the pointer (`InOrder`).

### `CircularBuffer_proofs`

For any bytes, payloads, read lengths, sizes and any `Word` that is a multiple of 4
and of each ring size up to a quarter of it (2^32 is): `BufferTypeCorrect` (`TypeOK`),
`LentInRing` (`ViewInRing`), `RingIsQueue` (`RefinesQueue`). `RingInv` relates the counters and both threads' calls: the ring
has the size asked for, which divides `Word` (`SizeAsked`), the data fits
(`DataFits`), the room and the data a thread has read off the other's counter are
still there when it uses them (`RoomStays`, `DataStays`), and the bytes copied
so far, in and out, are the right ones and as many as the call says (`WrittenSoFar`,
`CopiedSoFar`). These rest
on lemmas about differences modulo `Word` and indexes modulo the size; that the size
divides `Word` is what makes the index run on across the wrap. In the refinement a
commit is `Put` or `Take`, and the only other steps that are not stuttering change
what is given or shown; a `Take` is no longer than what was shown, unless the slice
was overlong (`ViewIsWhole`).

### `ScriptEngine_proofs`

`ReloadSeen` (`ReloadIsSeen`), for any scripts, functions and edits, from `SeenInv` of
`ScriptModules`: what is loaded, held and last written agree until a reload fails.

For any depth of calls, up to 125 arguments (with the two names what an `s8` counts)
and any results: `EngineTypeCorrect` (`TypeOK`), `StackBalanced` (`StackLayout`), `OwnSlots`
(`ReadsOwn`), `SlotsSuffice` (`WithinMinStack`). The inductive invariant
`EngineInv` adds `Bookkeeping`: the numbers that an activation keeps in C++ and uses
later (the place of its handler, of its first result, how many it has and wrote)
agree with where it lies. The argument treats a step as a change of two things,
the chain of activations and the frame on top: lemmas say when the layout survives
that an activation is pushed, replaced or popped, or that a C function's frame is
opened or closed, and others what `lua_insert`, the guarded call, the eight results
and the pops do to a frame. An error unwinds to the innermost running call, so
`Raise` cuts the chain at the largest index of one, and the layout survives any cut.
`WithinMinStack` is stated for up to six values written at a time: the six results a
C++ function may have written below a call and the at most fourteen slots of the
call itself are the twenty that Lua guarantees.

### Only model-checked

* `PushedIsReleased`, `CallReturns` and `Recovers`: liveness under fairness is out of
  the prover's reach.
* The four findings, which are counterexamples.

## 5. Findings

* `redis_async`: `addAsyncTask` tests `connection._postTask = false`, an
  assignment; no task handler is ever posted and no `Async` command is sent.
* `redis_resend`: `execCmd` compares a result that is 0 or -1 with
  `REDIS_ERR_IO` (1); the reconnect that the interface promises never happens.
  (`ReattemptSpec` also has the reconnect loop, to show that it is not reached.)
* `redis_auth`: `CreateRedisContext` takes AUTH's success for the failure and the
  other way round.
* `redis_write_interrupted`: after `EINTR` the loop moves the pointer back by one.
  All bytes are still sent (`WriteSendsAll`), and one too many.

Smaller ones, stated as exceptions in the properties that pass, which describe them and
do not refute them: `Get` and `HGet`
leave the out string alone when the value is empty and `HVals` appends to its
vector (`ReadsAgree`); `HGetAll` of a missing key reads behind an empty reply
(`CrashExactlyOnEmptyMap`); `SetExpire`, `Set`, `SetStringWithOption` and `HGet` do
not look at an error reply (`RefusalIsReported`); `RPushX` of several values sends
`LPUSHX` (`WritesAgree`), and `SetExpire` and `GetSet` send too few arguments to be
answered at all; rows before the last report the lengths of the last
(`LastRowIsExact`); `connectionnum` 0 divides by 0 (`DivisorUnlessZero`);
rows lost on the way are reported as a statement without rows (`RowsComplete`);
`CircluarBuffer` cannot be built for a size that is no power of two, because
`RoundupPowerOf2` shifts a negative number (`Created`); `GetCanReadBuff`
reads `_wcount` twice and can report a slice that passes the end of the block
(`ViewInRing`); a failed reload cuts the scripts that hold the module's table off
from all later ones (`ReloadIsSeen`); a call nested under two open callbacks passes
the twenty slots Lua guarantees (`WithinMinStack`).

`redis_sync` has as many connections as workers. With fewer (`ConnectNum` 1 and two
workers) `GetRedisConnection` gives two threads one context, and `ReplyIsOwn` and
`OneInFlight` fail.

## 6. Not modelled

`RedisMgr`'s profile and flush timer and `MysqlMgr::OnTime` copy and print
counters. The kernel's timers, module loading and shutdown are in libraries
without source. `pipelineSendAndGetReply` is one step of `RedisAsync`, which no
execution reaches. What the lock-free list's `cutList` returns, and in which
order, is in a library that is not here. The `tools` directory and the build files
have no state of this system.

In `ScriptEngine`: Lua coroutines (`LuaCall` uses the main state whatever state it
is called with), argument counts beyond an `s8` (assumed away in
`BoundsAssumption`), a build with `NDEBUG` (the Linux build never defines it; a
Windows release goes on after a failed `ASSERT`), code at the top level of a script
that calls C++ while it is being required, and an output function that writes to
the stream of an outer call. `Log`, `PrintLuaStack`, `CallPtfMod` and
`TestCallLuaFunction` print, or have no caller.

Most lines under `Thridlibrary/include` are headers of others: DbgHelp, the MySQL
client, hiredis, Lua. They declare interfaces and hold no logic of this system, so
the map covers nearly all of the modules' own code and a small part of the
repository's lines.

## 7. Plan

Every safety invariant the passing runs check, and the two refinements, are proved;
what stays with TLC is in section 4. What could still be added are theorems that no
run asks for yet: that a call that returns leaves the connection as it found it but
for its statement's effect (`DBConnection`), and bounds on what is under way on a
socket when several threads share one (`RedisMgr` with `ConnectNum` below the number
of workers).
