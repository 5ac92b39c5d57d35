--------------------------- MODULE RedisSyncCall ----------------------------
(***************************************************************************)
(* The synchronous calls of the Redis manager (RedisSyncCall.cpp): which   *)
(* command each call sends, and how it turns the server's reply into a     *)
(* return code and its out parameters.  One caller, one call at a time;    *)
(* what several threads do to one context is in module RedisMgr.           *)
(*                                                                         *)
(* The server is external: its keyspace and the replies of the commands    *)
(* the calls use, wrong types and wrong numbers of arguments included.     *)
(***************************************************************************)
EXTENDS Integers, Sequences, FiniteSets, FiniteSetsExt, SequencesExt

CONSTANTS
    Keys, Fields,
    Word,       \* the number of values of a size_t
    MaxInt,     \* bound: integers stored stay in -MaxInt..MaxInt
    MaxLen      \* bound: length of a list

\* A field's name is not the mark for no string.
ASSUME FieldsAssumption == IsFiniteSet(Fields) /\ "nil" \notin Fields
\* A size_t counts the elements of any reply.
ASSUME WordAssumption == Word \in Nat /\ Word > 1 /\ Word > 2 * Cardinality(Fields)
ASSUME BoundsAssumption == MaxInt \in Nat /\ MaxLen \in Nat

\* A string: the empty one, the text of an integer, or another text.
Empty  == [t |-> "", n |-> 0]
Num(n) == [t |-> "#", n |-> n]
Text   == [t |-> "text", n |-> 0]
Longer == [t |-> "longer", n |-> 0]     \* what APPEND makes of two texts
Nil    == [t |-> "nil", n |-> 0]        \* no string
Name(f) == [t |-> f, n |-> 0]           \* the name of field f
Values == {Empty, Text}                 \* what callers store

Missing == [type |-> "none", ttl |-> FALSE, str |-> Empty,
            hash |-> [f \in Fields |-> Nil], list |-> <<>>, set |-> {}]

VARIABLES
    store,    \* the server's keyspace
    linked,   \* whether the link is up; nothing restores it (module RedisMgr)
    crashed,  \* the process read behind a reply's elements
    last      \* the last call: op, args, reply, ret and out parameters

vars == <<store, linked, crashed, last>>

REDIS_OK == 0
REDIS_ERR_OTHER == 2
REDIS_RESULT_NODATA == -999

-----------------------------------------------------------------------------
(* Replies, and the server. *)

Reply(kind, int, str, arr) == [kind |-> kind, int |-> int, str |-> str, arr |-> arr]
StatusRep  == Reply("status", 0, Empty, <<>>)
Error   == Reply("error", 0, Empty, <<>>)
NilRep  == Reply("nil", 0, Empty, <<>>)
Lost    == Reply("lost", 0, Empty, <<>>)
IntRep(n)  == Reply("integer", n, Empty, <<>>)
Bulk(s) == IF s = Nil THEN NilRep ELSE Reply("string", 0, s, <<>>)
ArrayRep(s) == Reply("array", 0, Empty, s)

Present(v) == {f \in Fields : v.hash[f] # Nil}
\* A collection that became empty is a missing key.
Kept(v) ==
    LET gone == CASE v.type = "hash" -> Present(v) = {}
                  [] v.type = "list" -> v.list = <<>>
                  [] v.type = "set"  -> v.set = {}
                  [] OTHER           -> v.type = "none"
    IN  IF gone THEN Missing ELSE v

\* The server's step on key k: the key's new value v, and a reply.
On(k, v, r) == [store |-> [store EXCEPT ![k] = Kept(v)], reply |-> r]
Refused     == [store |-> store, reply |-> Error]
Answer(r)   == [store |-> store, reply |-> r]

IsNum(s)   == s.t = "#"
IntOf(s)   == IF s = Empty \/ s = Nil THEN 0 ELSE s.n
Bool(b)    == IF b THEN 1 ELSE 0
Slice(s, from, to) == SubSeq(s, from + 1, 1 + IF to < 0 THEN Len(s) + to ELSE Min({to, Len(s) - 1}))
Joined(s, t) == CASE t = Empty -> s [] s = Empty -> t [] OTHER -> Longer
StrLen(s)  == CASE s = Empty -> 0 [] s = Longer \/ s.n < 0 -> 2 [] OTHER -> 1

StringServer(verb, a) ==
    LET k == a[1]
        v == store[k]
        typed == v.type \in {"none", "string"}
        new(s) == [Missing EXCEPT !.type = "string", !.str = s]
        add(n) == IF typed /\ (v.type = "none" \/ IsNum(v.str))
                  THEN On(k, [v EXCEPT !.type = "string", !.str = Num(IntOf(@) + n)],
                          IntRep(IntOf(v.str) + n))
                  ELSE Refused
    IN CASE verb = "DEL"    -> On(k, Missing, IntRep(Bool(v.type # "none")))
         [] verb = "EXISTS" -> Answer(IntRep(Bool(v.type # "none")))
         [] verb = "TTL"    -> Answer(IntRep(IF v.type = "none" THEN -2 ELSE IF v.ttl THEN 1 ELSE -1))
         [] verb = "EXPIRE" -> IF Len(a) < 2 THEN Refused
                               ELSE On(k, [v EXCEPT !.ttl = TRUE], IntRep(Bool(v.type # "none")))
         [] verb = "SET"    -> IF (a[3].nx /\ v.type # "none") \/ (a[3].xx /\ v.type = "none")
                               THEN Answer(NilRep)
                               ELSE On(k, [new(a[2]) EXCEPT !.ttl = a[3].px], StatusRep)
         [] verb = "GET"    -> IF ~typed THEN Refused
                               ELSE Answer(Bulk(IF v.type = "none" THEN Nil ELSE v.str))
         [] verb = "GETSET" -> IF Len(a) < 2 \/ ~typed THEN Refused
                               ELSE On(k, new(a[2]), Bulk(IF v.type = "none" THEN Nil ELSE v.str))
         [] verb = "INCRBY" -> add(a[2])
         [] verb = "APPEND" -> IF ~typed THEN Refused
                               ELSE LET s == Joined(v.str, a[2])
                                    IN  On(k, [v EXCEPT !.type = "string", !.str = s], IntRep(StrLen(s)))

MultiServer(verb, a) ==
    IF a = <<>> THEN Refused
    ELSE CASE verb = "MGET" -> Answer(ArrayRep([i \in DOMAIN a |->
                                   IF store[a[i]].type = "string" THEN store[a[i]].str ELSE Nil]))
           [] verb = "MSET" -> [store |-> [k \in Keys |-> IF k \in {p[1] : p \in ToSet(a)}
                                             THEN LET p == CHOOSE q \in ToSet(a) : q[1] = k
                                                  IN  [Missing EXCEPT !.type = "string", !.str = p[2]]
                                             ELSE store[k]],
                                reply |-> StatusRep]

HashServer(verb, a) ==
    LET k == a[1]
        v == store[k]
        set(pairs) == [v EXCEPT !.type = "hash",
                          !.hash = [f \in Fields |-> IF f \in {p[1] : p \in pairs}
                                      THEN (CHOOSE p \in pairs : p[1] = f)[2] ELSE @[f]]]
        order == SetToSeq(Present(v))
    IN IF v.type \notin {"none", "hash"} \/ (verb \in {"HMSET", "HMGET", "HDEL"} /\ Len(a) < 2)
       THEN Refused
       ELSE CASE verb = "HSET"    -> On(k, set({<<a[2], a[3]>>}), IntRep(Bool(v.hash[a[2]] = Nil)))
              [] verb = "HSETNX"  -> IF v.hash[a[2]] # Nil THEN Answer(IntRep(0))
                                     ELSE On(k, set({<<a[2], a[3]>>}), IntRep(1))
              [] verb = "HMSET"   -> On(k, set(ToSet(Tail(a))), StatusRep)
              [] verb = "HGET"    -> Answer(Bulk(v.hash[a[2]]))
              [] verb = "HMGET"   -> Answer(ArrayRep([i \in 1..(Len(a) - 1) |-> v.hash[a[i + 1]]]))
              [] verb = "HGETALL" -> Answer(ArrayRep([i \in 1..(2 * Len(order)) |->
                                        IF i % 2 = 1 THEN Name(order[(i + 1) \div 2])
                                        ELSE v.hash[order[i \div 2]]]))
              [] verb = "HDEL"    -> LET gone == ToSet(Tail(a))
                                     IN  On(k, [v EXCEPT !.hash = [f \in Fields |->
                                                 IF f \in gone THEN Nil ELSE @[f]]],
                                            IntRep(Cardinality(gone \cap Present(v))))
              [] verb = "HLEN"    -> Answer(IntRep(Cardinality(Present(v))))
              [] verb = "HEXISTS" -> Answer(IntRep(Bool(v.hash[a[2]] # Nil)))
              [] verb = "HINCRBY" -> IF v.hash[a[2]] # Nil /\ ~IsNum(v.hash[a[2]]) THEN Refused
                                     ELSE LET n == IntOf(v.hash[a[2]]) + a[3]
                                          IN  On(k, set({<<a[2], Num(n)>>}), IntRep(n))
              [] verb = "HKEYS"   -> Answer(ArrayRep([i \in DOMAIN order |-> Name(order[i])]))
              [] verb = "HVALS"   -> Answer(ArrayRep([i \in DOMAIN order |-> v.hash[order[i]]]))

ListServer(verb, a) ==
    LET k == a[1]
        v == store[k]
        push(s) == On(k, [v EXCEPT !.type = "list", !.list = s], IntRep(Len(s)))
    IN IF v.type \notin {"none", "list"} \/ Len(a) < 2 THEN Refused
       ELSE CASE verb \in {"LPUSHX", "RPUSHX"} /\ v.type = "none" -> Answer(IntRep(0))
              [] verb = "LPUSH" \/ (verb = "LPUSHX" /\ v.type # "none") ->
                    push(Reverse(Tail(a)) \o v.list)
              [] verb = "RPUSH" \/ (verb = "RPUSHX" /\ v.type # "none") ->
                    push(v.list \o Tail(a))
              [] verb = "LRANGE" -> Answer(ArrayRep(Slice(v.list, a[2], a[3])))
              [] verb = "LTRIM"  -> On(k, [v EXCEPT !.list = Slice(@, a[2], a[3])], StatusRep)

SetServer(verb, a) ==
    LET k == a[1]
        v == store[k]
        members == ToSet(Tail(a))
    IN IF v.type \notin {"none", "set"} \/ (Len(a) < 2 /\ verb # "SMEMBERS") THEN Refused
       ELSE CASE verb = "SADD" -> On(k, [v EXCEPT !.type = "set", !.set = @ \cup members],
                                     IntRep(Cardinality(members \ v.set)))
              [] verb = "SREM" -> On(k, [v EXCEPT !.set = @ \ members],
                                     IntRep(Cardinality(members \cap v.set)))
              [] verb = "SMEMBERS" -> Answer(ArrayRep(SetToSeq(v.set)))

-----------------------------------------------------------------------------
(* Mutants: plausible slips in the definitions below. *)

\* ParseStringArray's loop runs while i <= elements - 1.
UpToMinusOne(r, out) ==
    LET n == Len(r.arr)
        str(v) == IF v = Nil THEN Empty ELSE v
    IN  IF r.kind = "array"
        THEN [ret |-> REDIS_OK, out |-> [out EXCEPT !.arr = @ \o [i \in 1..n |-> str(r.arr[i])]],
              crash |-> \E i \in 0..((n - 1) % Word) : i >= n]
        ELSE [ret |-> REDIS_ERR_OTHER, out |-> out, crash |-> FALSE]

\* ParseStringArray drops elements that are no strings.
SkipsNil(r, out) ==
    IF r.kind = "array"
    THEN [ret |-> REDIS_OK, crash |-> FALSE,
          out |-> [out EXCEPT !.arr = SelectSeq(r.arr, LAMBDA s : s # Nil)]]
    ELSE [ret |-> REDIS_ERR_OTHER, out |-> out, crash |-> FALSE]

\* A refused command answered with hiredis' REDIS_ERR, -1, which callers take for
\* REDIS_RESULT_TIMEOUT.
ErrOrOk(b) == IF b THEN REDIS_OK ELSE -1

\* GetInteger without looking at the reply's type.
AnyInteger(r, out) == [ret |-> REDIS_OK, out |-> [out EXCEPT !.int = r.int], crash |-> FALSE]

-----------------------------------------------------------------------------
(* RedisResult: what a call makes of a reply, and of its out parameters. *)

\* Callers pass out parameters that an earlier call has filled.
Out == [flag |-> TRUE, int |-> 9, str |-> Longer, arr |-> <<Longer>>, map |-> {<<Longer, Longer>>}]
\* ... and some calls reset theirs first.
Unset    == [Out EXCEPT !.flag = FALSE]
Cleared  == [Out EXCEPT !.arr = <<>>]
Unmapped == [Out EXCEPT !.map = {}]

Result(ret, out) == [ret |-> ret, out |-> out, crash |-> FALSE]
OkIf(b) == IF b THEN REDIS_OK ELSE REDIS_ERR_OTHER

\* GetString leaves its argument alone when the string is empty.
GetString(r, out) ==
    IF r.kind = "string" /\ r.str # Empty THEN [out EXCEPT !.str = r.str] ELSE out
Str(v) == IF v = Nil THEN Empty ELSE v      \* GetString of an element, into a new string
Integer(r) == IF r.kind = "integer" THEN r.int ELSE 0

Discard(r, out)   == Result(REDIS_OK, out)
AsFlag(r, out)    ==
    Result(REDIS_OK, IF r.kind = "integer" THEN [out EXCEPT !.flag = r.int # 0] ELSE out)
AsSeconds(r, out) == Result(REDIS_OK, IF r.kind = "integer" THEN [out EXCEPT !.int = r.int] ELSE out)
AsSuccess(r, out) == Result(REDIS_OK, [out EXCEPT !.flag = r.kind = "status"])
AsStatus(r, out)  == Result(OkIf(r.kind = "status"), out)
AsString(r, out)  ==
    Result(IF r.kind = "string" THEN REDIS_OK ELSE REDIS_RESULT_NODATA, GetString(r, out))
AsField(r, out)   ==
    IF r.kind = "nil" THEN Result(REDIS_RESULT_NODATA, out) ELSE Result(REDIS_OK, GetString(r, out))
AsInteger(r, out) ==
    Result(OkIf(r.kind = "integer"),
           IF r.kind = "integer" THEN [out EXCEPT !.int = r.int] ELSE out)
AsDone(r, out)    == Result(OkIf(r.kind = "integer"), out)
AsOne(r, out)     == Result(OkIf(Integer(r) = 1), out)
AsSome(r, out)    == Result(OkIf(Integer(r) > 0), out)
AsExists(r, out)  ==
    Result(OkIf(r.kind = "integer"),
           IF r.kind = "integer" THEN [out EXCEPT !.flag = r.int = 1] ELSE out)
AsRemoved(r, out) ==
    Result(IF r.kind = "integer" /\ r.int = 0 THEN REDIS_RESULT_NODATA
           ELSE OkIf(r.kind = "integer"), out)
\* ParseStringArray appends a string per element, the empty one for a nil.
AsArray(r, out)   ==
    IF r.kind = "array"
    THEN Result(REDIS_OK, [out EXCEPT !.arr = @ \o [i \in DOMAIN r.arr |-> Str(r.arr[i])]])
    ELSE Result(REDIS_ERR_OTHER, out)

(* ParseStringMap's loop: i takes the even numbers below elements - 1, which is unsigned,
   and element i is a key, element i + 1 its value (elements are counted from 0).  An
   index that is not below elements reads behind them.  emplace keeps the pair of a key
   that is in the map already. *)
Taken(n) == {i \in 0..(((n - 1) % Word) - 1) : i % 2 = 0}
ReadsBehind(n) == \E i \in Taken(n) : i + 1 >= n
Emplaced(map, arr) ==
    map \cup {p \in {<<Str(arr[i + 1]), Str(arr[i + 2])>> : i \in Taken(Len(arr))} :
                 \A q \in map : q[1] # p[1]}
AsMap(r, out)     ==
    CASE r.kind = "nil" -> Result(REDIS_RESULT_NODATA, out)
      [] r.kind = "array" /\ ReadsBehind(Len(r.arr)) ->
            [ret |-> REDIS_OK, out |-> out, crash |-> TRUE]
      [] r.kind = "array" /\ ~ReadsBehind(Len(r.arr)) ->
            Result(REDIS_OK, [out EXCEPT !.map = Emplaced(@, r.arr)])
      [] OTHER -> Result(REDIS_ERR_OTHER, out)

-----------------------------------------------------------------------------
Init ==
    /\ store = [k \in Keys |-> Missing]
    /\ linked = TRUE /\ crashed = FALSE
    /\ last = [op |-> "none", args |-> <<>>, reply |-> Lost, ret |-> REDIS_OK, out |-> Out]

\* A call.  Either it gets the command's reply, or the link is lost: before the command
\* reached the server or after, and for good.  execCmd returns 0 in each case.
SyncCall(op, args, served, interpreted, out) ==
    /\ ~crashed
    /\ \/ /\ linked /\ store' = served.store
          /\ last' = [op |-> op, args |-> args, reply |-> served.reply,
                      ret |-> interpreted.ret, out |-> interpreted.out]
          /\ crashed' = interpreted.crash
          /\ UNCHANGED linked
       \/ /\ store' \in IF linked THEN {store, served.store} ELSE {store}
          /\ last' = [op |-> op, args |-> args, reply |-> Lost, ret |-> REDIS_OK, out |-> out]
          /\ linked' = FALSE
          /\ UNCHANGED crashed

\* ... with what the call makes of the reply.
Call(op, args, served, Interpret(_, _), out) ==
    SyncCall(op, args, served, Interpret(served.reply, out), out)

Plain == [px |-> FALSE, nx |-> FALSE, xx |-> FALSE]
Options == {o \in [px : BOOLEAN, nx : BOOLEAN, xx : BOOLEAN] : ~(o.nx /\ o.xx)}

Del(k)       == Call("Del", <<k>>, StringServer("DEL", <<k>>), AsFlag, Unset)
GetTTL(k)    == Call("GetTTL", <<k>>, StringServer("TTL", <<k>>), AsSeconds, Out)
SetExpire(k) == Call("SetExpire", <<k>>, StringServer("EXPIRE", <<k>>), Discard, Out)
Exists(k)    == Call("Exists", <<k>>, StringServer("EXISTS", <<k>>), AsFlag, Unset)
Set(k, v)    == Call("Set", <<k, v>>, StringServer("SET", <<k, v, Plain>>), Discard, Out)
SetStringWithOption(k, v, o) ==
    Call("SetStringWithOption", <<k, v, o>>, StringServer("SET", <<k, v, o>>), AsSuccess, Unset)
Get(k)       == Call("Get", <<k>>, StringServer("GET", <<k>>), AsString, Out)
\* The new value v is not sent, nor is SetExpire's number of seconds.
GetSet(k, v) == Call("GetSet", <<k, v>>, StringServer("GETSET", <<k>>), AsString, Out)
Incrby(k, n) == Call("Incrby", <<k, n>>, StringServer("INCRBY", <<k, n>>), AsInteger, Out)
Incr(k)      == Call("Incr", <<k>>, StringServer("INCRBY", <<k, 1>>), AsInteger, Out)
Decr(k)      == Call("Decr", <<k>>, StringServer("INCRBY", <<k, -1>>), AsInteger, Out)
\* A mutant: Decrby is a copy of Incrby.
AddsInstead(k, n) == Call("Decrby", <<k, n>>, StringServer("INCRBY", <<k, n>>), AsInteger, Out)
Decrby(k, n) == Call("Decrby", <<k, n>>, StringServer("INCRBY", <<k, -n>>), AsInteger, Out)
AppendStr(k, v) == Call("Append", <<k, v>>, StringServer("APPEND", <<k, v>>), AsInteger, Out)
MGet(ks)     == Call("MGet", ks, MultiServer("MGET", ks), AsArray, Cleared)
MSet(pairs)  == Call("MSet", pairs, MultiServer("MSET", pairs), AsStatus, Out)

HSet(k, f, v)   == Call("HSet", <<k, f, v>>, HashServer("HSET", <<k, f, v>>), AsDone, Out)
HSetNx(k, f, v) == Call("HSetNx", <<k, f, v>>, HashServer("HSETNX", <<k, f, v>>), AsOne, Out)
HMSet(k, ps)    == Call("HMSet", <<k, ps>>, HashServer("HMSET", <<k>> \o ps), AsStatus, Out)
HGet(k, f)      == Call("HGet", <<k, f>>, HashServer("HGET", <<k, f>>), AsField, Out)
HMGet(k, fs)    == Call("HMGet", <<k, fs>>, HashServer("HMGET", <<k>> \o fs), AsArray, Cleared)
HGetAll(k)      == Call("HGetAll", <<k>>, HashServer("HGETALL", <<k>>), AsMap, Unmapped)
HDel(k, f)      == Call("HDel", <<k, f>>, HashServer("HDEL", <<k, f>>), AsOne, Out)
HDelAll(k, fs)  == Call("HDelAll", <<k, fs>>, HashServer("HDEL", <<k>> \o fs), AsSome, Out)
HLen(k)         == Call("HLen", <<k>>, HashServer("HLEN", <<k>>), AsInteger, Out)
HExists(k, f)   == Call("HExists", <<k, f>>, HashServer("HEXISTS", <<k, f>>), AsExists, Out)
HIncrby(k, f, n) == Call("HIncrby", <<k, f, n>>, HashServer("HINCRBY", <<k, f, n>>), AsInteger, Out)
HKeys(k)        == Call("HKeys", <<k>>, HashServer("HKEYS", <<k>>), AsArray, Cleared)
HVals(k)        == Call("HVals", <<k>>, HashServer("HVALS", <<k>>), AsArray, Out)

\* The arguments of a command that pushes several values.
PushArgs(k, vs) == <<k>> \o vs
GetListByRange(k, i, j) ==
    Call("GetListByRange", <<k, i, j>>, ListServer("LRANGE", <<k, i, j>>), AsArray, Cleared)
TrimList(k, i, j) == Call("TrimList", <<k, i, j>>, ListServer("LTRIM", <<k, i, j>>), AsStatus, Out)
LPush(k, vs)    == Call("LPush", <<k, vs>>, ListServer("LPUSH", PushArgs(k, vs)), AsInteger, Out)
LPushX(k, vs)   == Call("LPushX", <<k, vs>>, ListServer("LPUSHX", PushArgs(k, vs)), AsInteger, Out)
RPush(k, vs)    == Call("RPush", <<k, vs>>, ListServer("RPUSH", PushArgs(k, vs)), AsInteger, Out)
RPushX(k, v)    == Call("RPushX", <<k, <<v>>>>, ListServer("RPUSHX", PushArgs(k, <<v>>)), AsInteger, Out)
RPushXAll(k, vs) == Call("RPushXAll", <<k, vs>>, ListServer("LPUSHX", PushArgs(k, vs)), AsInteger, Out)

SAdd(k, ms)    == Call("SAdd", <<k, ms>>, SetServer("SADD", <<k>> \o ms), AsSome, Out)
SMembers(k)    == Call("SMembers", <<k>>, SetServer("SMEMBERS", <<k>>), AsArray, Cleared)
SRem(k, m)     == Call("SRem", <<k, <<m>>>>, SetServer("SREM", <<k, m>>), AsRemoved, Out)
SRemAll(k, ms) == Call("SRemAll", <<k, ms>>, SetServer("SREM", <<k>> \o ms), AsDone, Out)

-----------------------------------------------------------------------------
(* The environment. *)

Expire(k) ==
    /\ ~crashed /\ store[k].ttl
    /\ store' = [store EXCEPT ![k] = Missing]
    /\ last' = [last EXCEPT !.op = "expired"]
    /\ UNCHANGED <<linked, crashed>>

UpTo2(S) == {<<>>} \cup {<<x>> : x \in S} \cup (S \X S)
Pairs(S) == {<<x, v>> : x \in S, v \in Values}
Small(n) == n \in -MaxInt..MaxInt

KeyCalls(k) ==
    \/ Del(k) \/ GetTTL(k) \/ SetExpire(k) \/ Exists(k) \/ Get(k)
    \/ \E v \in Values : Set(k, v) \/ GetSet(k, v) \/ AppendStr(k, v)
                         \/ \E o \in Options : SetStringWithOption(k, v, o)
    \/ Small(store[k].str.n + 1) /\ Incr(k)
    \/ Small(store[k].str.n - 1) /\ Decr(k)
    \/ \E n \in {-1, 1} :
         \/ Small(store[k].str.n + n) /\ Incrby(k, n)
         \/ Small(store[k].str.n - n) /\ Decrby(k, n)
    \/ MGet(<<>>) \/ \E j \in Keys : MGet(<<k, j>>)
    \/ MSet(<<>>) \/ \E p \in Pairs({k}) : MSet(<<p>>)

HashCalls(k) ==
    \/ HGetAll(k) \/ HLen(k) \/ HKeys(k) \/ HVals(k)
    \/ \E f \in Fields :
         \/ HGet(k, f) \/ HDel(k, f) \/ HExists(k, f)
         \/ \E v \in Values : HSet(k, f, v) \/ HSetNx(k, f, v)
         \/ \E n \in {-1, 1} : Small(store[k].hash[f].n + n) /\ HIncrby(k, f, n)
    \/ \E fs \in UpTo2(Fields) : HMGet(k, fs) \/ HDelAll(k, fs)
    \/ HMSet(k, <<>>) \/ \E v \in Values : HMSet(k, SetToSeq({<<f, v>> : f \in Fields}))

ListCalls(k) ==
    \/ \E i \in {0, 1}, j \in {-1, 0} : GetListByRange(k, i, j) \/ TrimList(k, i, j)
    \/ \E vs \in UpTo2(Values) :
         /\ Len(store[k].list) + Len(vs) <= MaxLen
         /\ LPush(k, vs) \/ LPushX(k, vs) \/ RPush(k, vs) \/ RPushXAll(k, vs)
    \/ \E v \in Values : Len(store[k].list) < MaxLen /\ RPushX(k, v)

SetCalls(k) ==
    \/ SMembers(k)
    \/ \E ms \in UpTo2(Values) : SAdd(k, ms) \/ SRemAll(k, ms)
    \/ \E m \in Values : SRem(k, m)

Next ==
    \E k \in Keys : KeyCalls(k) \/ HashCalls(k) \/ ListCalls(k) \/ SetCalls(k) \/ Expire(k)

Spec == Init /\ [][Next]_vars

-----------------------------------------------------------------------------
Answered == last.reply.kind \notin {"error", "lost"} /\ ~crashed
IfEmpty(v) == IF v = Empty THEN Out.str ELSE v

\* What a read that was called op hands out, of keys that are as in db.
HandsOut(op, args, db, out) ==
    LET v == db[args[1]] IN
    CASE op = "Exists"  -> out.flag = (v.type # "none")
      [] op = "GetTTL"  -> out.int = IF v.type = "none" THEN -2 ELSE IF v.ttl THEN 1 ELSE -1
      [] op = "Get"     -> out.str = IfEmpty(v.str)
      [] op = "MGet"    -> out.arr = [i \in DOMAIN args |-> db[args[i]].str]
      [] op = "HGet"    -> out.str = IfEmpty(v.hash[args[2]])
      [] op = "HMGet"   -> out.arr = [i \in DOMAIN args[2] |-> Str(v.hash[args[2][i]])]
      [] op = "HGetAll" -> out.map = {<<Name(f), v.hash[f]>> : f \in Present(v)}
      [] op = "HLen"    -> out.int = Cardinality(Present(v))
      [] op = "HExists" -> out.flag = (v.hash[args[2]] # Nil)
      [] op = "HKeys"   -> ToSet(out.arr) = {Name(f) : f \in Present(v)}
      [] op = "HVals"   -> /\ Len(out.arr) = Len(Out.arr) + Cardinality(Present(v))
                           /\ ToSet(out.arr) = ToSet(Out.arr) \cup {v.hash[f] : f \in Present(v)}
      [] op = "GetListByRange" -> out.arr = Slice(v.list, args[2], args[3])
      [] op = "SMembers" -> ToSet(out.arr) = v.set
      [] OTHER -> TRUE

\* What a call named op has done to the key of its arguments; a read changes nothing.
HasDone(op, args, before, after, out) ==
    LET v == before[args[1]]
        w == after[args[1]]
        IsText(s)  == w.type = "string" /\ w.str = s
        Counted(n) == out.int = IntOf(v.str) + n /\ IsText(Num(out.int))
        Lists(q)   == w.type = "list" /\ w.list = q /\ out.int = Len(q)
        ListsIfAny(q) == IF v.type = "none" THEN w = v /\ out.int = 0 ELSE Lists(q)
    IN
    CASE op = "Del"     -> w.type = "none" /\ out.flag = (v.type # "none")
      [] op = "SetExpire" -> w = [v EXCEPT !.ttl = v.type # "none"]
      [] op = "Set"     -> IsText(args[2]) /\ ~w.ttl
      [] op = "SetStringWithOption" ->
            /\ out.flag = ((args[3].nx => v.type = "none") /\ (args[3].xx => v.type # "none"))
            /\ IF out.flag THEN IsText(args[2]) /\ w.ttl = args[3].px ELSE w = v
      [] op = "GetSet"  -> IsText(args[2])
      [] op = "Incr"    -> Counted(1)
      [] op = "Incrby"  -> Counted(args[2])
      [] op = "Decr"    -> Counted(-1)
      [] op = "Decrby"  -> Counted(-args[2])
      [] op = "Append"  -> IsText(Joined(v.str, args[2])) /\ out.int = StrLen(w.str)
      [] op = "MSet"    -> \A p \in ToSet(args) : after[p[1]].type = "string" /\ after[p[1]].str = p[2]
      [] op = "HSet"    -> w.hash = [v.hash EXCEPT ![args[2]] = args[3]]
      [] op = "HSetNx"  -> v.hash[args[2]] = Nil /\ w.hash = [v.hash EXCEPT ![args[2]] = args[3]]
      [] op = "HMSet"   -> /\ \A p \in ToSet(args[2]) : w.hash[p[1]] = p[2]
                           /\ \A f \in Fields : w.hash[f] = v.hash[f] \/ \E p \in ToSet(args[2]) : p[1] = f
      [] op = "HDel"    -> v.hash[args[2]] # Nil /\ w.hash = [v.hash EXCEPT ![args[2]] = Nil]
      [] op = "HDelAll" -> /\ w.hash = [f \in Fields |-> IF f \in ToSet(args[2]) THEN Nil ELSE v.hash[f]]
                           /\ w.hash # v.hash
      [] op = "HIncrby" -> /\ out.int = IntOf(v.hash[args[2]]) + args[3]
                           /\ w.hash = [v.hash EXCEPT ![args[2]] = Num(out.int)]
      [] op = "TrimList" -> w.list = Slice(v.list, args[2], args[3])
      [] op = "RPush"   -> Lists(v.list \o args[2])
      [] op = "LPush"   -> Lists(Reverse(args[2]) \o v.list)
      [] op = "RPushX"  -> ListsIfAny(v.list \o args[2])
      [] op \in {"LPushX", "RPushXAll"} -> ListsIfAny(Reverse(args[2]) \o v.list)
      [] op = "SAdd"    -> w.set = v.set \cup ToSet(args[2]) /\ w.set # v.set
      [] op = "SRem"    -> w.set = v.set \ ToSet(args[2]) /\ w.set # v.set
      [] op = "SRemAll" -> w.set = v.set \ ToSet(args[2])
      [] OTHER -> after = before

TypeOK ==
    /\ \A k \in Keys :
         /\ store[k].type \in {"none", "string", "hash", "list", "set"}
         /\ store[k].ttl \in BOOLEAN /\ Len(store[k].list) <= MaxLen
         /\ store[k].set \subseteq Values
         /\ DOMAIN store[k].hash = Fields
    /\ last.ret \in {REDIS_OK, REDIS_ERR_OTHER, REDIS_RESULT_NODATA}
    /\ linked \in BOOLEAN /\ crashed \in BOOLEAN

(***************************************************************************)
(* A read that returns REDIS_OK on an answer hands out what the server     *)
(* stores, and nothing of what its out parameter held before: RedisTest    *)
(* compares what Get and the others hand out with what was stored.  The    *)
(* exceptions are stated as the code has them: the string of Get and HGet  *)
(* keeps its old text when the value is empty, and HVals appends.  (The    *)
(* conversions of GetTTL to s32 and of a list's length to u32 lose nothing *)
(* here: an expiry is a u32 of milliseconds, and a list holds fewer than   *)
(* 2^32 values.)                                                           *)
(***************************************************************************)
ReadsAgree ==
    Answered /\ last.ret = REDIS_OK => HandsOut(last.op, last.args, store, last.out)

(***************************************************************************)
(* A write that returns REDIS_OK on an answer has done to its key what its *)
(* name says: the amount of an increment, which end a value was pushed to  *)
(* and in which order, which fields and members came and went, the option  *)
(* and the expiry of a string; its out parameter tells the outcome, and    *)
(* the calls that say OK only for a change made one.  A read changes no    *)
(* key.  RPushX of several values is stated as the code has it: it pushes  *)
(* at the head, as it sends LPUSHX (RedisSyncCall.cpp:829).  SetExpire and *)
(* GetSet are stated by their names; they are never answered, as their     *)
(* commands lack an argument (RedisSyncCall.cpp:49, 135).                  *)
(***************************************************************************)
CallDone ==
    Answered' /\ last'.ret = REDIS_OK /\ last'.op # "expired"
        => HasDone(last'.op, last'.args, store, store', last'.out)
WritesAgree == [][CallDone]_<<store, last>>

(***************************************************************************)
(* A command the server refuses (a key of another type, too few arguments) *)
(* is not reported as done, but for the calls that look at no error reply. *)
(***************************************************************************)
Silent == {"SetExpire", "Set", "SetStringWithOption", "HGet"}
RefusalIsReported ==
    last.reply.kind = "error" /\ ~crashed /\ last.op \notin Silent \cup {"expired"}
        => last.ret # REDIS_OK

(***************************************************************************)
(* A call reads behind the elements of its reply exactly when it is an     *)
(* HGetAll that was answered for a key without fields: a key never set, or *)
(* deleted, expired or emptied field by field before.  No other number of  *)
(* fields lets ParseStringMap's unsigned bound run away, and no other      *)
(* call's empty array.                                                     *)
(***************************************************************************)
CrashExactlyOnEmptyMap ==
    crashed <=> /\ last.op = "HGetAll" /\ last.reply.kind = "array"
                /\ Present(store[last.args[1]]) = {}

-----------------------------------------------------------------------------
(***************************************************************************)
(* The inductive invariant: what the server keeps is well formed (a key    *)
(* without a value has nothing left of an older one, and only a string has *)
(* a text), and the last call agrees with it.                              *)
(***************************************************************************)
Strings == [t : {"", "#", "text", "longer"}, n : Int]
Entries == [type : {"none", "string", "hash", "list", "set"}, ttl : BOOLEAN, str : Strings,
            hash : [Fields -> Strings \cup {Nil}], list : Seq(Values), set : SUBSET Values]

Formed(v) ==
    /\ v \in Entries /\ Len(v.list) <= MaxLen
    /\ v.type = "none" => v = Missing
    /\ v.type # "string" => v.str = Empty

StoreFormed == store \in [Keys -> Entries] /\ \A k \in Keys : Formed(store[k])

SyncInv == TypeOK /\ StoreFormed /\ ReadsAgree /\ CrashExactlyOnEmptyMap
=============================================================================
