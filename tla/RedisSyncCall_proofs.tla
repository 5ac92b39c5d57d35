------------------------ MODULE RedisSyncCall_proofs -------------------------
(***************************************************************************)
(* Theorems about RedisSyncCall, for any keys and fields and any bounds on *)
(* the stored integers and lists.                                          *)
(***************************************************************************)
EXTENDS RedisSyncCall, FiniteSetTheorems, TLAPS

(* The shape of what the last call left, and the property itself. *)
Shaped == \E op, args, reply, ret, out :
              last = [op |-> op, args |-> args, reply |-> reply, ret |-> ret, out |-> out]
RefusalInv == Shaped /\ RefusalIsReported

(* A call of the given name and reply with what was made of the reply. *)
Reports(op, r, res) == r.kind = "error" /\ op \notin Silent => res.ret # REDIS_OK

LEMMA CallReports ==
    ASSUME NEW op, NEW args, NEW served, NEW res, NEW out,
           Reports(op, served.reply, res),
           SyncCall(op, args, served, res, out)
    PROVE  RefusalInv'
  <1>1. PICK r, ret, o :
           /\ last' = [op |-> op, args |-> args, reply |-> r, ret |-> ret, out |-> o]
           /\ (r = served.reply /\ ret = res.ret) \/ r = Lost
    BY DEF SyncCall
  <1>2. r.kind = "error" /\ op \notin Silent => ret # REDIS_OK
    BY <1>1 DEF Reports, Lost, Reply
  <1>3. last'.reply = r /\ last'.op = op /\ last'.ret = ret
    BY <1>1
  <1>4. RefusalIsReported'
    BY <1>2, <1>3 DEF RefusalIsReported
  <1>5. Shaped'
    BY <1>1 DEF Shaped
  <1> QED
    BY <1>4, <1>5 DEF RefusalInv

(* What the calls make of an error reply. *)
LEMMA ErrorIsNoSuccess ==
    ASSUME NEW op, NEW r, NEW out, r.kind = "error"
    PROVE  /\ AsStatus(r, out).ret # REDIS_OK /\ AsString(r, out).ret # REDIS_OK
           /\ AsInteger(r, out).ret # REDIS_OK /\ AsDone(r, out).ret # REDIS_OK
           /\ AsOne(r, out).ret # REDIS_OK /\ AsSome(r, out).ret # REDIS_OK
           /\ AsExists(r, out).ret # REDIS_OK /\ AsRemoved(r, out).ret # REDIS_OK
           /\ AsArray(r, out).ret # REDIS_OK /\ AsMap(r, out).ret # REDIS_OK
  BY DEF AsStatus, AsString, AsInteger, AsDone, AsOne, AsSome, AsExists, AsRemoved, AsArray, AsMap,
         Result, OkIf, Integer, REDIS_OK, REDIS_ERR_OTHER, REDIS_RESULT_NODATA

(* DEL, TTL and EXISTS are answered with an integer whatever the key holds. *)
LEMMA NeverRefused ==
    ASSUME NEW k, NEW verb \in {"DEL", "TTL", "EXISTS"}
    PROVE  StringServer(verb, <<k>>).reply.kind = "integer"
  BY DEF StringServer, On, Answer, IntRep, Reply

(* The calls that look at the reply, and those that need not. *)
LEMMA CheckedCall ==
    ASSUME NEW op, NEW args, NEW served, NEW out, NEW res,
           res \in {AsStatus(served.reply, out), AsString(served.reply, out),
                    AsInteger(served.reply, out), AsDone(served.reply, out),
                    AsOne(served.reply, out), AsSome(served.reply, out),
                    AsExists(served.reply, out), AsRemoved(served.reply, out),
                    AsArray(served.reply, out), AsMap(served.reply, out)},
           SyncCall(op, args, served, res, out)
    PROVE  RefusalInv'
  <1>1. Reports(op, served.reply, res)
    BY ErrorIsNoSuccess DEF Reports
  <1> QED
    BY <1>1, CallReports

LEMMA UncheckedCall ==
    ASSUME NEW op, NEW args, NEW served, NEW out, NEW res,
           op \in Silent \/ served.reply.kind = "integer",
           SyncCall(op, args, served, res, out)
    PROVE  RefusalInv'
  <1>1. Reports(op, served.reply, res)
    BY DEF Reports
  <1> QED
    BY <1>1, CallReports

LEMMA KeyCallsReport ==
    ASSUME NEW k \in Keys, KeyCalls(k)
    PROVE  RefusalInv'
  <1>1. CASE Del(k)
    BY <1>1, NeverRefused, UncheckedCall DEF Del, Call
  <1>2. CASE GetTTL(k)
    BY <1>2, NeverRefused, UncheckedCall DEF GetTTL, Call
  <1>3. CASE Exists(k)
    BY <1>3, NeverRefused, UncheckedCall DEF Exists, Call
  <1>4. CASE SetExpire(k)
    BY <1>4, UncheckedCall DEF SetExpire, Call, Silent
  <1>5. CASE Get(k)
    BY <1>5, CheckedCall DEF Get, Call
  <1>6. ASSUME NEW v \in Values, GetSet(k, v) PROVE RefusalInv'
    BY <1>6, CheckedCall DEF GetSet, Call
  <1>7. ASSUME NEW v \in Values, Set(k, v) PROVE RefusalInv'
    BY <1>7, UncheckedCall DEF Set, Call, Silent
  <1>8. ASSUME NEW v \in Values, AppendStr(k, v) PROVE RefusalInv'
    BY <1>8, CheckedCall DEF AppendStr, Call
  <1>9. ASSUME NEW v \in Values, NEW o \in Options, SetStringWithOption(k, v, o) PROVE RefusalInv'
    BY <1>9, UncheckedCall DEF SetStringWithOption, Call, Silent
  <1>10. CASE Incr(k)
    BY <1>10, CheckedCall DEF Incr, Call
  <1>11. ASSUME NEW n, Incrby(k, n) PROVE RefusalInv'
    BY <1>11, CheckedCall DEF Incrby, Call
  <1>12. CASE Decr(k)
    BY <1>12, CheckedCall DEF Decr, Call
  <1>13. ASSUME NEW n, Decrby(k, n) PROVE RefusalInv'
    BY <1>13, CheckedCall DEF Decrby, Call
  <1>14. ASSUME NEW ks, MGet(ks) PROVE RefusalInv'
    BY <1>14, CheckedCall DEF MGet, Call
  <1>15. ASSUME NEW ps, MSet(ps) PROVE RefusalInv'
    BY <1>15, CheckedCall DEF MSet, Call
  <1> QED
    BY <1>1, <1>2, <1>3, <1>4, <1>5, <1>6, <1>7, <1>8, <1>9, <1>10, <1>11, <1>12, <1>13,
       <1>14, <1>15 DEF KeyCalls

LEMMA HashCallsReport ==
    ASSUME NEW k \in Keys, HashCalls(k)
    PROVE  RefusalInv'
  <1>1. CASE HGetAll(k)
    BY <1>1, CheckedCall DEF HGetAll, Call
  <1>2. CASE HLen(k)
    BY <1>2, CheckedCall DEF HLen, Call
  <1>3. CASE HKeys(k)
    BY <1>3, CheckedCall DEF HKeys, Call
  <1>4. CASE HVals(k)
    BY <1>4, CheckedCall DEF HVals, Call
  <1>5. ASSUME NEW f \in Fields, HGet(k, f) PROVE RefusalInv'
    BY <1>5, UncheckedCall DEF HGet, Call, Silent
  <1>6. ASSUME NEW f \in Fields, HDel(k, f) PROVE RefusalInv'
    BY <1>6, CheckedCall DEF HDel, Call
  <1>7. ASSUME NEW f \in Fields, HExists(k, f) PROVE RefusalInv'
    BY <1>7, CheckedCall DEF HExists, Call
  <1>8. ASSUME NEW f \in Fields, NEW v \in Values, HSet(k, f, v) PROVE RefusalInv'
    BY <1>8, CheckedCall DEF HSet, Call
  <1>9. ASSUME NEW f \in Fields, NEW v \in Values, HSetNx(k, f, v) PROVE RefusalInv'
    BY <1>9, CheckedCall DEF HSetNx, Call
  <1>10. ASSUME NEW f \in Fields, NEW n \in {-1, 1}, HIncrby(k, f, n) PROVE RefusalInv'
    BY <1>10, CheckedCall DEF HIncrby, Call
  <1>11. ASSUME NEW fs, HMGet(k, fs) PROVE RefusalInv'
    BY <1>11, CheckedCall DEF HMGet, Call
  <1>12. ASSUME NEW fs, HDelAll(k, fs) PROVE RefusalInv'
    BY <1>12, CheckedCall DEF HDelAll, Call
  <1>13. ASSUME NEW ps, HMSet(k, ps) PROVE RefusalInv'
    BY <1>13, CheckedCall DEF HMSet, Call
  <1> QED
    BY <1>1, <1>2, <1>3, <1>4, <1>5, <1>6, <1>7, <1>8, <1>9, <1>10, <1>11, <1>12, <1>13
       DEF HashCalls

LEMMA ListCallsReport ==
    ASSUME NEW k \in Keys, ListCalls(k)
    PROVE  RefusalInv'
  <1>1. ASSUME NEW i, NEW j, GetListByRange(k, i, j) PROVE RefusalInv'
    BY <1>1, CheckedCall DEF GetListByRange, Call
  <1>2. ASSUME NEW i, NEW j, TrimList(k, i, j) PROVE RefusalInv'
    BY <1>2, CheckedCall DEF TrimList, Call
  <1>3. ASSUME NEW vs, LPush(k, vs) PROVE RefusalInv'
    BY <1>3, CheckedCall DEF LPush, Call
  <1>4. ASSUME NEW vs, LPushX(k, vs) PROVE RefusalInv'
    BY <1>4, CheckedCall DEF LPushX, Call
  <1>5. ASSUME NEW vs, RPush(k, vs) PROVE RefusalInv'
    BY <1>5, CheckedCall DEF RPush, Call
  <1>6. ASSUME NEW vs, RPushXAll(k, vs) PROVE RefusalInv'
    BY <1>6, CheckedCall DEF RPushXAll, Call
  <1>7. ASSUME NEW v, RPushX(k, v) PROVE RefusalInv'
    BY <1>7, CheckedCall DEF RPushX, Call
  <1> QED
    BY <1>1, <1>2, <1>3, <1>4, <1>5, <1>6, <1>7 DEF ListCalls

LEMMA SetCallsReport ==
    ASSUME NEW k \in Keys, SetCalls(k)
    PROVE  RefusalInv'
  <1>1. CASE SMembers(k)
    BY <1>1, CheckedCall DEF SMembers, Call
  <1>2. ASSUME NEW ms, SAdd(k, ms) PROVE RefusalInv'
    BY <1>2, CheckedCall DEF SAdd, Call
  <1>3. ASSUME NEW ms, SRemAll(k, ms) PROVE RefusalInv'
    BY <1>3, CheckedCall DEF SRemAll, Call
  <1>4. ASSUME NEW m, SRem(k, m) PROVE RefusalInv'
    BY <1>4, CheckedCall DEF SRem, Call
  <1> QED
    BY <1>1, <1>2, <1>3, <1>4 DEF SetCalls

(***************************************************************************)
(* Whatever the keys hold and however the calls follow on one another, a   *)
(* call whose command the server refuses does not return REDIS_OK, but for *)
(* SetExpire, Set, SetStringWithOption and HGet, which do not look.        *)
(***************************************************************************)
THEOREM RefusalsReported == Spec => []RefusalIsReported
  <1>1. Init => RefusalInv
    <2> SUFFICES ASSUME Init PROVE RefusalInv
      OBVIOUS
    <2>1. last = [op |-> "none", args |-> <<>>, reply |-> Lost, ret |-> REDIS_OK, out |-> Out]
      BY DEF Init
    <2>2. Shaped
      BY <2>1 DEF Shaped
    <2>3. last.reply.kind = "lost"
      BY <2>1 DEF Lost, Reply
    <2> QED
      BY <2>2, <2>3 DEF RefusalInv, RefusalIsReported
  <1>2. RefusalInv /\ [Next]_vars => RefusalInv'
    <2> SUFFICES ASSUME RefusalInv, [Next]_vars PROVE RefusalInv'
      OBVIOUS
    <2>1. CASE \E k \in Keys : KeyCalls(k) \/ HashCalls(k) \/ ListCalls(k) \/ SetCalls(k)
      BY <2>1, KeyCallsReport, HashCallsReport, ListCallsReport, SetCallsReport
    <2>2. CASE \E k \in Keys : Expire(k)
      <3>1. last' = [last EXCEPT !.op = "expired"]
        BY <2>2 DEF Expire
      <3>2. PICK op, args, reply, ret, out :
               last = [op |-> op, args |-> args, reply |-> reply, ret |-> ret, out |-> out]
        BY DEF RefusalInv, Shaped
      <3>3. last' = [op |-> "expired", args |-> args, reply |-> reply, ret |-> ret, out |-> out]
        BY <3>1, <3>2
      <3> QED
        BY <3>3 DEF RefusalInv, Shaped, RefusalIsReported
    <2>3. CASE UNCHANGED vars
      BY <2>3 DEF vars, RefusalInv, Shaped, RefusalIsReported
    <2> QED
      BY <2>1, <2>2, <2>3 DEF Next
  <1>3. RefusalInv => RefusalIsReported
    BY DEF RefusalInv
  <1> QED
    BY <1>1, <1>2, <1>3, PTL DEF Spec

-----------------------------------------------------------------------------
(* The server keeps its keys well formed. *)

DbFormed(db) == db \in [Keys -> Entries] /\ \A k \in Keys : Formed(db[k])

(* An entry before it is stored: it may be an empty collection. *)
Raw(v) ==
    /\ v \in Entries /\ Len(v.list) <= MaxLen
    /\ v.type # "string" => v.str = Empty

LEMMA StringKinds ==
    /\ Empty \in Strings /\ Text \in Strings /\ Longer \in Strings
    /\ Nil \notin Strings /\ Empty # Nil
    /\ Values \subseteq Strings /\ IsFiniteSet(Values)
    /\ \A n \in Int : Num(n) \in Strings
  <1>1. IsFiniteSet({Empty, Text})
    <2>1. IsFiniteSet({}) /\ {Empty, Text} = ({} \cup {Empty}) \cup {Text}
      BY FS_EmptySet
    <2>2. IsFiniteSet({} \cup {Empty})
      BY <2>1, FS_AddElement
    <2> QED
      BY <2>1, <2>2, FS_AddElement
  <1> QED
    <2>1. Empty \in Strings /\ Text \in Strings /\ Longer \in Strings
      BY DEF Strings, Empty, Text, Longer
    <2>2. Nil \notin Strings
      BY DEF Strings, Nil
    <2>3. \A n \in Int : Num(n) \in Strings
      BY DEF Strings, Num
    <2> QED
      BY <1>1, <2>1, <2>2, <2>3 DEF Values

LEMMA MissingFormed == Missing \in Entries /\ Formed(Missing) /\ Present(Missing) = {}
  <1>1. Missing \in Entries
    <2>1. [f \in Fields |-> Nil] \in [Fields -> Strings \cup {Nil}]
      OBVIOUS
    <2> QED
      BY <2>1, StringKinds DEF Missing, Entries
  <1>2. Missing.type = "none" /\ Missing.str = Empty /\ Len(Missing.list) = 0
    BY DEF Missing
  <1>3. Present(Missing) = {}
    BY DEF Present, Missing
  <1> QED
    BY <1>1, <1>2, <1>3, BoundsAssumption DEF Formed

LEMMA KeptFacts ==
    ASSUME NEW v, Raw(v)
    PROVE  /\ Formed(Kept(v)) /\ Kept(v) \in Entries
           /\ v.type = "none" => Kept(v) = Missing
           /\ v.type = "string" => Kept(v) = v
           /\ v.type = "hash" => Kept(v).hash = v.hash
           /\ v.type = "list" => Kept(v).list = v.list
           /\ v.type = "set" => Kept(v).set = v.set
           /\ v.type = "list" /\ v.list # <<>> => Kept(v) = v
  <1>1. Kept(v) = v \/ Kept(v) = Missing
    BY DEF Kept
  <1>2. v.type # "none" /\ Kept(v) = v => Formed(Kept(v))
    BY DEF Formed, Raw
  <1>3. v.type = "none" => Kept(v) = Missing
    BY DEF Kept
  <1>4. v.type = "string" => Kept(v) = v
    BY DEF Kept
  <1>5. v.type = "hash" => Kept(v).hash = v.hash
    <2> SUFFICES ASSUME v.type = "hash" PROVE Kept(v).hash = v.hash
      OBVIOUS
    <2>1. CASE Present(v) = {}
      <3>1. v.hash \in [Fields -> Strings \cup {Nil}]
        BY DEF Raw, Entries
      <3>2. \A f \in Fields : v.hash[f] = Nil
        BY <2>1 DEF Present
      <3>3. v.hash = [f \in Fields |-> Nil]
        BY <3>1, <3>2
      <3>4. Kept(v) = Missing
        BY <2>1 DEF Kept
      <3> QED
        BY <3>3, <3>4 DEF Missing
    <2>2. CASE Present(v) # {}
      BY <2>2 DEF Kept
    <2> QED
      BY <2>1, <2>2
  <1>6. v.type = "list" => Kept(v).list = v.list /\ (v.list # <<>> => Kept(v) = v)
    BY DEF Kept, Missing
  <1>7. v.type = "set" => Kept(v).set = v.set
    BY DEF Kept, Missing
  <1>8. Formed(Kept(v))
    BY <1>1, <1>2, <1>3, MissingFormed
  <1> QED
    BY <1>3, <1>4, <1>5, <1>6, <1>7, <1>8 DEF Formed

LEMMA OnFacts ==
    ASSUME StoreFormed, NEW k \in Keys, NEW v, Raw(v), NEW r
    PROVE  /\ DbFormed(On(k, v, r).store) /\ On(k, v, r).reply = r
           /\ On(k, v, r).store[k] = Kept(v)
  <1>1. Formed(Kept(v)) /\ Kept(v) \in Entries
    BY KeptFacts
  <1>2. On(k, v, r).store = [store EXCEPT ![k] = Kept(v)] /\ On(k, v, r).reply = r
    BY DEF On
  <1>3. [store EXCEPT ![k] = Kept(v)] \in [Keys -> Entries]
    BY <1>1 DEF StoreFormed
  <1>4. /\ [store EXCEPT ![k] = Kept(v)][k] = Kept(v)
        /\ \A j \in Keys : j # k => [store EXCEPT ![k] = Kept(v)][j] = store[j]
    BY DEF StoreFormed
  <1>5. \A j \in Keys : Formed([store EXCEPT ![k] = Kept(v)][j])
    BY <1>1, <1>4 DEF StoreFormed
  <1> QED
    BY <1>2, <1>3, <1>4, <1>5 DEF DbFormed

LEMMA AnswerFacts ==
    ASSUME StoreFormed, NEW r
    PROVE  /\ DbFormed(Answer(r).store) /\ Answer(r).store = store /\ Answer(r).reply = r
           /\ DbFormed(Refused.store) /\ Refused.reply.kind = "error"
  BY DEF Answer, Refused, StoreFormed, DbFormed, Error, Reply

LEMMA EntryFacts ==
    ASSUME StoreFormed, NEW k \in Keys
    PROVE  /\ store[k] \in Entries /\ Formed(store[k]) /\ Raw(store[k])
           /\ store[k].type = "none" => store[k] = Missing
  BY DEF StoreFormed, Formed, Raw

-----------------------------------------------------------------------------
(* One call: what has to be shown of the server's step and of the result. *)

Codes == {REDIS_OK, REDIS_ERR_OTHER, REDIS_RESULT_NODATA}

Went(served, res) ==
    served.reply.kind \notin {"error", "lost"} /\ ~res.crash /\ res.ret = REDIS_OK
Agrees(op, args, served, res) ==
    Went(served, res) =>
        /\ HandsOut(op, args, served.store, res.out)
        /\ HasDone(op, args, store, served.store, res.out)


(* When the process crashes. *)
Crashes(op, args, served, res) ==
    res.crash <=> /\ op = "HGetAll" /\ served.reply.kind = "array"
                  /\ Present(served.store[args[1]]) = {}

CallsInv == SyncInv /\ Shaped

(* What has to be shown of a step. *)
Sound == CallsInv' /\ CallDone

LEMMA FormedIsTyped ==
    ASSUME NEW db, DbFormed(db), NEW k \in Keys
    PROVE  /\ db[k].type \in {"none", "string", "hash", "list", "set"}
           /\ db[k].ttl \in BOOLEAN /\ Len(db[k].list) <= MaxLen
           /\ db[k].set \subseteq Values /\ DOMAIN db[k].hash = Fields
  BY DEF DbFormed, Formed, Entries

LEMMA CallSound ==
    ASSUME CallsInv, NEW op, NEW args, NEW served, NEW res, NEW out,
           SyncCall(op, args, served, res, out),
           DbFormed(served.store), res.ret \in Codes, res.crash \in BOOLEAN,
           Agrees(op, args, served, res), Crashes(op, args, served, res)
    PROVE  Sound
  <1>1. linked \in BOOLEAN /\ crashed = FALSE /\ DbFormed(store)
    BY DEF CallsInv, SyncInv, TypeOK, StoreFormed, DbFormed, SyncCall
  <1>2. CASE /\ linked /\ store' = served.store
             /\ last' = [op |-> op, args |-> args, reply |-> served.reply, ret |-> res.ret, out |-> res.out]
             /\ crashed' = res.crash /\ linked' = linked
    <2>1. /\ last'.reply = served.reply /\ last'.op = op /\ last'.ret = res.ret
          /\ last'.args = args /\ last'.out = res.out /\ Shaped'
      BY <1>2 DEF Shaped
    <2>2. TypeOK'
      BY <1>1, <1>2, <2>1, FormedIsTyped DEF TypeOK, Codes
    <2>3. StoreFormed'
      BY <1>2 DEF StoreFormed, DbFormed
    <2>4. ReadsAgree' /\ CallDone
      BY <1>2, <2>1 DEF ReadsAgree, CallDone, Answered, Agrees, Went
    <2>5. CrashExactlyOnEmptyMap'
      BY <1>2, <2>1 DEF CrashExactlyOnEmptyMap, Crashes
    <2> QED
      BY <2>1, <2>2, <2>3, <2>4, <2>5 DEF Sound, CallsInv, SyncInv
  <1>3. CASE /\ store' \in {store, served.store}
             /\ last' = [op |-> op, args |-> args, reply |-> Lost, ret |-> REDIS_OK, out |-> out]
             /\ linked' = FALSE /\ crashed' = crashed
    <2>1. last'.reply.kind = "lost" /\ last'.ret = REDIS_OK /\ Shaped'
      BY <1>3 DEF Shaped, Lost, Reply
    <2>2. DbFormed(store')
      BY <1>1, <1>3
    <2>3. TypeOK'
      BY <1>1, <1>3, <2>1, <2>2, FormedIsTyped DEF TypeOK
    <2>4. StoreFormed'
      BY <2>2 DEF StoreFormed, DbFormed
    <2>5. ReadsAgree' /\ CallDone /\ CrashExactlyOnEmptyMap'
      BY <1>1, <1>3, <2>1 DEF ReadsAgree, CallDone, Answered, CrashExactlyOnEmptyMap
    <2> QED
      BY <2>1, <2>3, <2>4, <2>5 DEF Sound, CallsInv, SyncInv
  <1>4. store' \in (IF linked THEN {store, served.store} ELSE {store}) => store' \in {store, served.store}
    OBVIOUS
  <1> QED
    BY <1>2, <1>3, <1>4 DEF SyncCall

(* A call that reads no map. *)
LEMMA SafeCallSound ==
    ASSUME CallsInv, NEW op, NEW args, NEW served, NEW res, NEW out,
           SyncCall(op, args, served, res, out), op # "HGetAll",
           DbFormed(served.store), res.ret \in Codes, res.crash = FALSE,
           Agrees(op, args, served, res)
    PROVE  Sound
  <1>1. Crashes(op, args, served, res)
    BY DEF Crashes
  <1> QED
    BY <1>1, CallSound

(* The calls that read; the others write. *)
Reads == {"Exists", "GetTTL", "Get", "MGet", "HGet", "HMGet", "HGetAll", "HLen", "HExists", "HKeys",
          "HVals", "GetListByRange", "SMembers"}

LEMMA ReadAgrees ==
    ASSUME NEW op \in Reads, NEW args, NEW served, NEW res,
           Went(served, res) => served.store = store /\ HandsOut(op, args, store, res.out)
    PROVE  Agrees(op, args, served, res)
  <1>1. ASSUME NEW a, NEW b, NEW out, a = b PROVE HasDone(op, args, b, a, out)
    BY <1>1 DEF Reads, HasDone
  <1> QED
    BY <1>1 DEF Agrees

LEMMA WriteAgrees ==
    ASSUME NEW op, op \notin Reads, NEW args, NEW served, NEW res,
           Went(served, res) => HasDone(op, args, store, served.store, res.out)
    PROVE  Agrees(op, args, served, res)
  <1>1. ASSUME NEW db, NEW out PROVE HandsOut(op, args, db, out)
    BY DEF Reads, HandsOut
  <1> QED
    BY <1>1 DEF Agrees

LEMMA RefusedAgrees ==
    ASSUME NEW op, NEW args, NEW served, NEW res, served.reply.kind = "error"
    PROVE  Agrees(op, args, served, res)
  BY DEF Agrees, Went

(* What the calls make of a reply. *)
LEMMA ResultKinds ==
    ASSUME NEW r, NEW out
    PROVE  /\ Discard(r, out).ret \in Codes /\ Discard(r, out).crash = FALSE
           /\ AsFlag(r, out).ret \in Codes /\ AsFlag(r, out).crash = FALSE
           /\ AsSeconds(r, out).ret \in Codes /\ AsSeconds(r, out).crash = FALSE
           /\ AsSuccess(r, out).ret \in Codes /\ AsSuccess(r, out).crash = FALSE
           /\ AsStatus(r, out).ret \in Codes /\ AsStatus(r, out).crash = FALSE
           /\ AsString(r, out).ret \in Codes /\ AsString(r, out).crash = FALSE
           /\ AsField(r, out).ret \in Codes /\ AsField(r, out).crash = FALSE
           /\ AsInteger(r, out).ret \in Codes /\ AsInteger(r, out).crash = FALSE
           /\ AsDone(r, out).ret \in Codes /\ AsDone(r, out).crash = FALSE
           /\ AsOne(r, out).ret \in Codes /\ AsOne(r, out).crash = FALSE
           /\ AsSome(r, out).ret \in Codes /\ AsSome(r, out).crash = FALSE
           /\ AsExists(r, out).ret \in Codes /\ AsExists(r, out).crash = FALSE
           /\ AsRemoved(r, out).ret \in Codes /\ AsRemoved(r, out).crash = FALSE
           /\ AsArray(r, out).ret \in Codes /\ AsArray(r, out).crash = FALSE
           /\ AsMap(r, out).ret \in Codes /\ AsMap(r, out).crash \in BOOLEAN
           /\ AsMap(r, out).crash => r.kind = "array"
  BY DEF Discard, AsFlag, AsSeconds, AsSuccess, AsStatus, AsString, AsField, AsInteger, AsDone,
         AsOne, AsSome, AsExists, AsRemoved, AsArray, AsMap, Result, OkIf, Codes

-----------------------------------------------------------------------------
(* The commands on strings, and those that take any key. *)

LEMMA PutString ==
    ASSUME NEW v, Raw(v), NEW s \in Strings, NEW ttl \in BOOLEAN
    PROVE  /\ Raw([v EXCEPT !.type = "string", !.str = s])
           /\ Raw([[Missing EXCEPT !.type = "string", !.str = s] EXCEPT !.ttl = ttl])
           /\ Raw([Missing EXCEPT !.type = "string", !.str = s])
  <1>1. Missing \in Entries /\ Len(Missing.list) <= MaxLen
    BY MissingFormed DEF Formed
  <1>2. /\ [v EXCEPT !.type = "string", !.str = s] \in Entries
        /\ [v EXCEPT !.type = "string", !.str = s].type = "string"
        /\ [v EXCEPT !.type = "string", !.str = s].list = v.list
    BY DEF Raw, Entries
  <1>3. PICK m : m = [Missing EXCEPT !.type = "string", !.str = s]
    OBVIOUS
  <1>4. m \in Entries /\ m.type = "string" /\ m.list = Missing.list
    BY <1>1, <1>3 DEF Entries
  <1>5. /\ [m EXCEPT !.ttl = ttl] \in Entries /\ [m EXCEPT !.ttl = ttl].type = "string"
        /\ [m EXCEPT !.ttl = ttl].list = m.list
    BY <1>4 DEF Entries
  <1>6. Raw([v EXCEPT !.type = "string", !.str = s])
    BY <1>2 DEF Raw
  <1>7. Raw(m) /\ Raw([m EXCEPT !.ttl = ttl])
    BY <1>1, <1>4, <1>5 DEF Raw
  <1> QED
    BY <1>3, <1>6, <1>7

LEMMA AnyKeyServed ==
    ASSUME StoreFormed, NEW k \in Keys, NEW verb \in {"DEL", "TTL", "EXISTS", "EXPIRE", "GETSET"}
    PROVE  /\ DbFormed(StringServer(verb, <<k>>).store)
           /\ verb = "EXISTS" => /\ StringServer(verb, <<k>>).store = store
                                 /\ StringServer(verb, <<k>>).reply = IntRep(Bool(store[k].type # "none"))
           /\ verb = "TTL" =>
                /\ StringServer(verb, <<k>>).store = store
                /\ StringServer(verb, <<k>>).reply
                       = IntRep(IF store[k].type = "none" THEN -2 ELSE IF store[k].ttl THEN 1 ELSE -1)
           /\ verb = "DEL" => /\ StringServer(verb, <<k>>).store[k] = Missing
                              /\ StringServer(verb, <<k>>).reply = IntRep(Bool(store[k].type # "none"))
           /\ verb \in {"EXPIRE", "GETSET"} => StringServer(verb, <<k>>) = Refused
  <1>1. CASE verb = "DEL"
    <2>1. Raw(Missing)
      BY MissingFormed DEF Formed, Raw
    <2>2. StringServer(verb, <<k>>) = On(k, Missing, IntRep(Bool(store[k].type # "none")))
      BY <1>1 DEF StringServer
    <2>3. Kept(Missing) = Missing
      BY DEF Kept, Missing
    <2> QED
      BY <1>1, <2>1, <2>2, <2>3, OnFacts
  <1>2. CASE verb = "TTL"
    <2>1. StringServer(verb, <<k>>)
             = Answer(IntRep(IF store[k].type = "none" THEN -2 ELSE IF store[k].ttl THEN 1 ELSE -1))
      BY <1>2 DEF StringServer
    <2> QED
      BY <1>2, <2>1, AnswerFacts
  <1>3. CASE verb = "EXISTS"
    <2>1. StringServer(verb, <<k>>) = Answer(IntRep(Bool(store[k].type # "none")))
      BY <1>3 DEF StringServer
    <2> QED
      BY <1>3, <2>1, AnswerFacts
  <1>4. CASE verb \in {"EXPIRE", "GETSET"}
    <2>1. StringServer(verb, <<k>>) = Refused
      BY <1>4 DEF StringServer
    <2> QED
      BY <1>4, <2>1, AnswerFacts
  <1> QED
    BY <1>1, <1>2, <1>3, <1>4

(* Whether the option of a SET lets it set an entry. *)
Allowed(o, u) == (o.nx => u.type = "none") /\ (o.xx => u.type # "none")

LEMMA SetServed ==
    ASSUME StoreFormed, NEW k \in Keys, NEW v \in Values, NEW o, o.px \in BOOLEAN,
           NEW s, s = StringServer("SET", <<k, v, o>>)
    PROVE  /\ DbFormed(s.store)
           /\ Allowed(o, store[k]) => /\ s.reply.kind = "status" /\ s.store[k].type = "string"
                                      /\ s.store[k].str = v /\ s.store[k].ttl = o.px
           /\ ~Allowed(o, store[k]) => s.reply.kind = "nil" /\ s.store = store
  <1>1. PICK w : w = [[Missing EXCEPT !.type = "string", !.str = v] EXCEPT !.ttl = o.px]
    OBVIOUS
  <1>2. \/ ~Allowed(o, store[k]) /\ s = Answer(NilRep)
        \/ Allowed(o, store[k]) /\ s = On(k, w, StatusRep)
    BY <1>1 DEF StringServer, Allowed
  <1>3. Raw(w) /\ w.type = "string" /\ w.str = v /\ w.ttl = o.px
    <2>1. v \in Strings /\ Raw(Missing)
      BY StringKinds, MissingFormed DEF Formed, Raw
    <2>2. Raw(w)
      BY <1>1, <2>1, PutString
    <2> QED
      BY <1>1, <2>2, MissingFormed DEF Entries
  <1>4. CASE ~Allowed(o, store[k]) /\ s = Answer(NilRep)
    BY <1>4, AnswerFacts DEF NilRep, Reply
  <1>5. CASE Allowed(o, store[k]) /\ s = On(k, w, StatusRep)
    <2>1. Kept(w) = w
      BY <1>3, KeptFacts
    <2>2. DbFormed(s.store) /\ s.reply = StatusRep /\ s.store[k] = w
      BY <1>3, <1>5, <2>1, OnFacts
    <2> QED
      BY <1>3, <1>5, <2>2 DEF StatusRep, Reply
  <1> QED
    BY <1>2, <1>4, <1>5

LEMMA GetServed ==
    ASSUME StoreFormed, NEW k \in Keys, NEW s, s = StringServer("GET", <<k>>)
    PROVE  /\ DbFormed(s.store)
           /\ s.reply.kind = "string" => s.store = store /\ s.reply.str = store[k].str
  <1>1. \/ s = Refused \/ s = Answer(Bulk(Nil))
        \/ s = Answer(Bulk(store[k].str))
    BY DEF StringServer
  <1>2. Bulk(Nil).kind = "nil" /\ Refused.reply.kind = "error"
    BY DEF Bulk, NilRep, Refused, Error, Reply
  <1>3. Bulk(store[k].str).str = store[k].str
    <2>1. store[k].str # Nil
      BY EntryFacts, StringKinds DEF Entries
    <2> QED
      BY <2>1 DEF Bulk, Reply
  <1> QED
    BY <1>1, <1>2, <1>3, AnswerFacts

LEMMA IncrServed ==
    ASSUME StoreFormed, NEW k \in Keys, NEW n \in Int, NEW s, s = StringServer("INCRBY", <<k, n>>)
    PROVE  /\ DbFormed(s.store)
           /\ s.reply.kind # "error" =>
                /\ s.reply.kind = "integer" /\ s.reply.int = IntOf(store[k].str) + n
                /\ s.store[k].type = "string" /\ s.store[k].str = Num(s.reply.int)
  <1>1. PICK u : u = store[k]
    OBVIOUS
  <1>2. PICK m : m = IntOf(u.str) + n
    OBVIOUS
  <1>3. s = Refused \/ s = On(k, [u EXCEPT !.type = "string", !.str = Num(m)], IntRep(m))
    BY <1>1, <1>2 DEF StringServer
  <1>4. Raw(u) /\ u \in Entries
    BY <1>1, EntryFacts
  <1>5. m \in Int
    <2>1. u.str \in Strings
      BY <1>4 DEF Entries
    <2>2. u.str.n \in Int
      BY <2>1 DEF Strings
    <2>3. IntOf(u.str) = 0 \/ IntOf(u.str) = u.str.n
      BY DEF IntOf
    <2> QED
      BY <1>2, <2>2, <2>3
  <1>6. CASE s = Refused
    BY <1>6, AnswerFacts
  <1>7. CASE s = On(k, [u EXCEPT !.type = "string", !.str = Num(m)], IntRep(m))
    <2>1. PICK w : w = [u EXCEPT !.type = "string", !.str = Num(m)]
      OBVIOUS
    <2>2. Raw(w)
      BY <1>4, <1>5, <2>1, StringKinds, PutString
    <2>3. w.type = "string" /\ w.str = Num(m)
      BY <1>4, <2>1 DEF Entries
    <2>4. DbFormed(s.store) /\ s.store[k] = w /\ s.reply = IntRep(m)
      <3>1. Kept(w) = w
        BY <2>2, <2>3, KeptFacts
      <3>2. s = On(k, w, IntRep(m))
        BY <1>7, <2>1
      <3>3. /\ DbFormed(On(k, w, IntRep(m)).store) /\ On(k, w, IntRep(m)).reply = IntRep(m)
            /\ On(k, w, IntRep(m)).store[k] = Kept(w)
        BY ONLY StoreFormed, k \in Keys, <2>2, OnFacts
      <3> QED
        BY <3>1, <3>2, <3>3
    <2>5. s.reply.kind = "integer" /\ s.reply.int = m
      BY <2>4 DEF IntRep, Reply
    <2> QED
      BY <1>1, <1>2, <2>3, <2>4, <2>5
  <1> QED
    BY <1>3, <1>6, <1>7

LEMMA AppendServed ==
    ASSUME StoreFormed, NEW k \in Keys, NEW v \in Values, NEW s, s = StringServer("APPEND", <<k, v>>)
    PROVE  /\ DbFormed(s.store)
           /\ s.reply.kind # "error" =>
                /\ s.reply.kind = "integer" /\ s.reply.int = StrLen(Joined(store[k].str, v))
                /\ s.store[k].type = "string" /\ s.store[k].str = Joined(store[k].str, v)
  <1>1. PICK u : u = store[k]
    OBVIOUS
  <1>2. PICK t : t = Joined(u.str, v)
    OBVIOUS
  <1>3. s = Refused \/ s = On(k, [u EXCEPT !.type = "string", !.str = t], IntRep(StrLen(t)))
    BY <1>1, <1>2 DEF StringServer
  <1>4. Raw(u) /\ u \in Entries
    BY <1>1, EntryFacts
  <1>5. t \in Strings
    <2>1. u.str \in Strings /\ v \in Strings /\ Longer \in Strings
      BY <1>4, StringKinds DEF Entries
    <2>2. t = u.str \/ t = v \/ t = Longer
      BY <1>2 DEF Joined
    <2> QED
      BY <2>1, <2>2
  <1>6. CASE s = Refused
    BY <1>6, AnswerFacts
  <1>7. CASE s = On(k, [u EXCEPT !.type = "string", !.str = t], IntRep(StrLen(t)))
    <2>1. PICK w : w = [u EXCEPT !.type = "string", !.str = t]
      OBVIOUS
    <2>2. Raw(w)
      BY <1>4, <1>5, <2>1, PutString
    <2>3. w.type = "string" /\ w.str = t
      BY <1>4, <2>1 DEF Entries
    <2>4. Kept(w) = w
      BY <2>2, <2>3, KeptFacts
    <2>5. PICK r : r = IntRep(StrLen(t))
      OBVIOUS
    <2>6. DbFormed(On(k, w, r).store) /\ On(k, w, r).reply = r /\ On(k, w, r).store[k] = Kept(w)
      BY ONLY StoreFormed, k \in Keys, <2>2, OnFacts
    <2>7. s = On(k, w, r)
      BY <1>7, <2>1, <2>5
    <2>8. r.kind = "integer" /\ r.int = StrLen(t)
      BY <2>5 DEF IntRep, Reply
    <2> QED
      BY <1>1, <1>2, <2>3, <2>4, <2>6, <2>7, <2>8
  <1> QED
    BY <1>3, <1>6, <1>7

LEMMA OutParameters ==
    LET stale == {<<Longer, Longer>>}
    IN  /\ Out \in [flag : {TRUE}, int : {9}, str : {Longer}, arr : {<<Longer>>}, map : {stale}]
        /\ Unset \in [flag : {FALSE}, int : {9}, str : {Longer}, arr : {<<Longer>>}, map : {stale}]
        /\ Cleared \in [flag : {TRUE}, int : {9}, str : {Longer}, arr : {<<>>}, map : {stale}]
        /\ Unmapped \in [flag : {TRUE}, int : {9}, str : {Longer}, arr : {<<Longer>>}, map : {{}}]
  <1> DEFINE stale == {<<Longer, Longer>>}
  <1>1. Out \in [flag : {TRUE}, int : {9}, str : {Longer}, arr : {<<Longer>>}, map : {stale}]
    BY DEF Out
  <1> HIDE DEF stale
  <1>2. [Out EXCEPT !.arr = <<>>] \in [flag : {TRUE}, int : {9}, str : {Longer}, arr : {<<>>}, map : {stale}]
    BY <1>1
  <1>3. [Out EXCEPT !.map = {}] \in [flag : {TRUE}, int : {9}, str : {Longer}, arr : {<<Longer>>}, map : {{}}]
    BY <1>1
  <1>4. [Out EXCEPT !.flag = FALSE] \in [flag : {FALSE}, int : {9}, str : {Longer}, arr : {<<Longer>>}, map : {stale}]
    BY <1>1
  <1> QED
    BY <1>1, <1>2, <1>3, <1>4 DEF Cleared, Unset, Unmapped, stale

LEMMA MGetServed ==
    ASSUME StoreFormed, NEW ks \in Seq(Keys), NEW s, s = MultiServer("MGET", ks),
           NEW res, res = AsArray(s.reply, Cleared)
    PROVE  /\ DbFormed(s.store)
           /\ s.reply.kind # "error" =>
                /\ s.store = store
                /\ res.out.arr = [i \in DOMAIN ks |-> store[ks[i]].str]
  <1>1. PICK a : a = [i \in DOMAIN ks |-> IF store[ks[i]].type = "string" THEN store[ks[i]].str ELSE Nil]
    OBVIOUS
  <1>2. s = Refused \/ s = Answer(ArrayRep(a))
    BY <1>1 DEF MultiServer
  <1>3. CASE s = Refused
    BY <1>3, AnswerFacts
  <1>4. CASE s = Answer(ArrayRep(a))
    <2>1. s.store = store /\ s.reply = ArrayRep(a) /\ DbFormed(s.store)
      BY <1>4, AnswerFacts
    <2>2. s.reply.kind = "array" /\ s.reply.arr = a
      BY <2>1 DEF ArrayRep, Reply
    <2>3. PICK b : b = [i \in DOMAIN a |-> Str(a[i])]
      OBVIOUS
    <2>4. \A i \in DOMAIN ks : b[i] = store[ks[i]].str
      <3> TAKE i \in DOMAIN ks
      <3>1. ks[i] \in Keys
        OBVIOUS
      <3>2. /\ store[ks[i]].str \in Strings
            /\ store[ks[i]].type # "string" => store[ks[i]].str = Empty
        BY <3>1, EntryFacts DEF Entries, Formed
      <3>3. b[i] = IF a[i] = Nil THEN Empty ELSE a[i]
        BY <1>1, <2>3 DEF Str
      <3>4. a[i] = IF store[ks[i]].type = "string" THEN store[ks[i]].str ELSE Nil
        BY <1>1
      <3> QED
        BY <3>2, <3>3, <3>4, StringKinds
    <2>5. b \in Seq(Strings) /\ Len(b) = Len(ks) /\ DOMAIN b = DOMAIN ks
      <3>1. \A i \in DOMAIN ks : store[ks[i]].str \in Strings
        BY EntryFacts DEF Entries
      <3>2. DOMAIN b = 1..Len(ks) /\ \A i \in 1..Len(ks) : b[i] \in Strings
        BY <1>1, <2>3, <2>4, <3>1
      <3>3. b = [i \in 1..Len(ks) |-> b[i]]
        BY <1>1, <2>3, <3>2
      <3> QED
        BY <3>2, <3>3
    <2>6. res.out.arr = <<>> \o b
      <3>1. [Cleared EXCEPT !.arr = @ \o b].arr = <<>> \o b
        BY OutParameters
      <3>2. PICK o : o = [Cleared EXCEPT !.arr = @ \o b]
        OBVIOUS
      <3>3. res.out = o
        <4>1. res = Result(REDIS_OK, o)
          BY <2>2, <2>3, <3>2 DEF AsArray
        <4> QED
          BY <4>1 DEF Result
      <3> QED
        BY <3>1, <3>2, <3>3
    <2>7. <<>> \o b = [i \in DOMAIN ks |-> store[ks[i]].str]
      BY <2>4, <2>5
    <2> QED
      BY <2>1, <2>6, <2>7
  <1> QED
    BY <1>2, <1>3, <1>4

LEMMA MSetServed ==
    ASSUME StoreFormed, NEW k \in Keys, NEW v \in Values,
           NEW s, s = MultiServer("MSET", << <<k, v>> >>)
    PROVE  DbFormed(s.store) /\ s.store[k].type = "string" /\ s.store[k].str = v
  <1>1. PICK a : a = << <<k, v>> >>
    OBVIOUS
  <1>2. a # <<>> /\ ToSet(a) = {<<k, v>>}
    BY <1>1 DEF ToSet
  <1>3. PICK w : w = [Missing EXCEPT !.type = "string", !.str = v]
    OBVIOUS
  <1>4. (CHOOSE q \in ToSet(a) : q[1] = k) = <<k, v>>
    BY <1>2
  <1>5. \A j \in Keys : j \in {p[1] : p \in ToSet(a)} <=> j = k
    BY <1>2
  <1>6. s.store = [j \in Keys |-> IF j \in {p[1] : p \in ToSet(a)}
                                  THEN LET p == CHOOSE q \in ToSet(a) : q[1] = j
                                       IN  [Missing EXCEPT !.type = "string", !.str = p[2]]
                                  ELSE store[j]]
    BY <1>1, <1>2 DEF MultiServer
  <1>7. \A j \in Keys : s.store[j] = IF j = k THEN w ELSE store[j]
    <2> TAKE j \in Keys
    <2>1. j # k => s.store[j] = store[j]
      BY <1>5, <1>6
    <2>2. s.store[k] = [Missing EXCEPT !.type = "string",
                                       !.str = (CHOOSE q \in ToSet(a) : q[1] = k)[2]]
      BY <1>5, <1>6
    <2>3. <<k, v>>[2] = v
      OBVIOUS
    <2>4. s.store[k] = w
      BY <1>3, <1>4, <2>2, <2>3
    <2> QED
      BY <2>1, <2>4
  <1>8. Raw(w) /\ w.type = "string" /\ w.str = v
    <2>1. v \in Strings /\ Raw(Missing)
      BY StringKinds, MissingFormed DEF Formed, Raw
    <2>2. Raw(w)
      BY <1>3, <2>1, PutString
    <2> QED
      BY <1>3, <2>2, MissingFormed DEF Entries
  <1>9. Formed(w) /\ w \in Entries
    BY <1>8 DEF Formed, Raw
  <1>10. s.store \in [Keys -> Entries]
    BY <1>6, <1>7, <1>9, EntryFacts
  <1> QED
    BY <1>7, <1>8, <1>9, <1>10, EntryFacts DEF DbFormed

(* What a reply leaves in the out parameters. *)
LEMMA Interpreted ==
    ASSUME NEW r
    PROVE  /\ r.kind = "integer" => AsFlag(r, Unset).out.flag = (r.int # 0)
           /\ r.kind = "integer" => AsSeconds(r, Out).out.int = r.int
           /\ AsSuccess(r, Unset).out.flag = (r.kind = "status")
           /\ AsInteger(r, Out).ret = REDIS_OK => /\ r.kind = "integer"
                                                 /\ AsInteger(r, Out).out.int = r.int
           /\ AsExists(r, Out).ret = REDIS_OK => /\ r.kind = "integer"
                                                /\ AsExists(r, Out).out.flag = (r.int = 1)
           /\ AsString(r, Out).ret = REDIS_OK => /\ r.kind = "string"
                                                /\ AsString(r, Out).out.str = IfEmpty(r.str)
           /\ r.kind = "string" => AsField(r, Out).out.str = IfEmpty(r.str)
           /\ AsField(r, Out).ret = REDIS_OK => r.kind # "nil"
  <1>1. PICK stale : /\ Out \in [flag : BOOLEAN, int : {9}, str : {Longer}, arr : {<<Longer>>}, map : {stale}]
                     /\ Unset \in [flag : BOOLEAN, int : {9}, str : {Longer}, arr : {<<Longer>>}, map : {stale}]
    BY OutParameters
  <1>2. \A x : /\ [Out EXCEPT !.flag = x].flag = x /\ [Out EXCEPT !.int = x].int = x
               /\ [Out EXCEPT !.str = x].str = x /\ [Unset EXCEPT !.flag = x].flag = x
    BY <1>1
  <1>3. REDIS_OK # REDIS_ERR_OTHER /\ REDIS_OK # REDIS_RESULT_NODATA
    BY DEF REDIS_OK, REDIS_ERR_OTHER, REDIS_RESULT_NODATA
  <1>4. r.kind = "integer" => AsFlag(r, Unset).out.flag = (r.int # 0)
    BY <1>2 DEF AsFlag, Result
  <1>5. r.kind = "integer" => AsSeconds(r, Out).out.int = r.int
    BY <1>2 DEF AsSeconds, Result
  <1>6. AsSuccess(r, Unset).out.flag = (r.kind = "status")
    BY <1>2 DEF AsSuccess, Result
  <1>7. AsInteger(r, Out).ret = REDIS_OK => /\ r.kind = "integer"
                                            /\ AsInteger(r, Out).out.int = r.int
    BY <1>2, <1>3 DEF AsInteger, Result, OkIf
  <1>8. AsExists(r, Out).ret = REDIS_OK => /\ r.kind = "integer"
                                           /\ AsExists(r, Out).out.flag = (r.int = 1)
    BY <1>2, <1>3 DEF AsExists, Result, OkIf
  <1>9. r.kind = "string" => GetString(r, Out).str = IfEmpty(r.str)
    BY <1>2 DEF GetString, IfEmpty
  <1>10. AsString(r, Out).ret = REDIS_OK => /\ r.kind = "string"
                                            /\ AsString(r, Out).out.str = IfEmpty(r.str)
    BY <1>3, <1>9 DEF AsString, Result
  <1>11. /\ r.kind = "string" => AsField(r, Out).out.str = IfEmpty(r.str)
         /\ AsField(r, Out).ret = REDIS_OK => r.kind # "nil"
    BY <1>3, <1>9 DEF AsField, Result
  <1> QED
    BY <1>4, <1>5, <1>6, <1>7, <1>8, <1>10, <1>11

LEMMA KeyCallsSound ==
    ASSUME CallsInv, NEW k \in Keys, KeyCalls(k)
    PROVE  Sound
  <1>1. StoreFormed /\ DbFormed(store)
    BY DEF CallsInv, SyncInv, StoreFormed, DbFormed
  <1>2. CASE Del(k)
    <2>1. PICK s : s = StringServer("DEL", <<k>>)
      OBVIOUS
    <2>2. PICK res : res = AsFlag(s.reply, Unset)
      OBVIOUS
    <2>3. DbFormed(s.store) /\ s.store[k] = Missing /\ s.reply = IntRep(Bool(store[k].type # "none"))
      BY <1>1, <2>1, AnyKeyServed
    <2>4. res.out.flag = (store[k].type # "none")
      <3>1. s.reply.kind = "integer" /\ s.reply.int = Bool(store[k].type # "none")
        BY <2>3 DEF IntRep, Reply
      <3>2. (s.reply.int # 0) = (store[k].type # "none")
        BY <3>1 DEF Bool
      <3> QED
        BY <2>2, <3>1, <3>2, Interpreted
    <2>5. s.store[k].type = "none"
      BY <2>3 DEF Missing
    <2>6. HasDone("Del", <<k>>, store, s.store, res.out)
      BY <2>4, <2>5 DEF HasDone
    <2>7. Agrees("Del", <<k>>, s, res)
      BY <2>6, WriteAgrees DEF Reads
    <2>8. SyncCall("Del", <<k>>, s, res, Unset) /\ res.ret \in Codes /\ res.crash = FALSE
      BY <1>2, <2>1, <2>2, ResultKinds DEF Del, Call
    <2> QED
      BY <2>3, <2>7, <2>8, SafeCallSound
  <1>3. CASE GetTTL(k)
    <2>1. PICK s : s = StringServer("TTL", <<k>>)
      OBVIOUS
    <2>2. PICK res : res = AsSeconds(s.reply, Out)
      OBVIOUS
    <2>3. PICK n : n = IF store[k].type = "none" THEN -2 ELSE IF store[k].ttl THEN 1 ELSE -1
      OBVIOUS
    <2>4. DbFormed(s.store) /\ s.store = store /\ s.reply = IntRep(n)
      BY <1>1, <2>1, <2>3, AnyKeyServed
    <2>5. res.out.int = n
      BY <2>2, <2>4, Interpreted DEF IntRep, Reply
    <2>6. HandsOut("GetTTL", <<k>>, store, res.out)
      BY <2>3, <2>5 DEF HandsOut
    <2>7. Agrees("GetTTL", <<k>>, s, res)
      BY <2>4, <2>6, ReadAgrees DEF Reads
    <2>8. SyncCall("GetTTL", <<k>>, s, res, Out) /\ res.ret \in Codes /\ res.crash = FALSE
      BY <1>3, <2>1, <2>2, ResultKinds DEF GetTTL, Call
    <2> QED
      BY <2>4, <2>7, <2>8, SafeCallSound
  <1>4. CASE Exists(k)
    <2>1. PICK s : s = StringServer("EXISTS", <<k>>)
      OBVIOUS
    <2>2. PICK res : res = AsFlag(s.reply, Unset)
      OBVIOUS
    <2>3. DbFormed(s.store) /\ s.store = store /\ s.reply = IntRep(Bool(store[k].type # "none"))
      BY <1>1, <2>1, AnyKeyServed
    <2>4. res.out.flag = (store[k].type # "none")
      <3>1. s.reply.kind = "integer" /\ s.reply.int = Bool(store[k].type # "none")
        BY <2>3 DEF IntRep, Reply
      <3>2. (s.reply.int # 0) = (store[k].type # "none")
        BY <3>1 DEF Bool
      <3> QED
        BY <2>2, <3>1, <3>2, Interpreted
    <2>5. HandsOut("Exists", <<k>>, store, res.out)
      BY <2>4 DEF HandsOut
    <2>6. Agrees("Exists", <<k>>, s, res)
      BY <2>3, <2>5, ReadAgrees DEF Reads
    <2>7. SyncCall("Exists", <<k>>, s, res, Unset) /\ res.ret \in Codes /\ res.crash = FALSE
      BY <1>4, <2>1, <2>2, ResultKinds DEF Exists, Call
    <2> QED
      BY <2>3, <2>6, <2>7, SafeCallSound
  <1>5. CASE SetExpire(k)
    <2>1. PICK s : s = StringServer("EXPIRE", <<k>>)
      OBVIOUS
    <2>2. DbFormed(s.store) /\ s.reply.kind = "error"
      BY <1>1, <2>1, AnyKeyServed, AnswerFacts
    <2>3. SyncCall("SetExpire", <<k>>, s, Discard(s.reply, Out), Out)
      BY <1>5, <2>1 DEF SetExpire, Call
    <2>4. Discard(s.reply, Out).ret \in Codes /\ Discard(s.reply, Out).crash = FALSE
      BY ResultKinds
    <2> QED
      BY <2>2, <2>3, <2>4, RefusedAgrees, SafeCallSound
  <1>6. CASE Get(k)
    <2>1. PICK s : s = StringServer("GET", <<k>>)
      OBVIOUS
    <2>2. PICK res : res = AsString(s.reply, Out)
      OBVIOUS
    <2>3. /\ DbFormed(s.store)
          /\ s.reply.kind = "string" => s.store = store /\ s.reply.str = store[k].str
      BY <1>1, <2>1, GetServed
    <2>4. res.ret = REDIS_OK => s.store = store /\ res.out.str = IfEmpty(store[k].str)
      BY <2>2, <2>3, Interpreted
    <2>5. res.ret = REDIS_OK => s.store = store /\ HandsOut("Get", <<k>>, store, res.out)
      BY <2>4 DEF HandsOut
    <2>6. Agrees("Get", <<k>>, s, res)
      BY <2>5, ReadAgrees DEF Reads, Went
    <2>7. SyncCall("Get", <<k>>, s, res, Out) /\ res.ret \in Codes /\ res.crash = FALSE
      BY <1>6, <2>1, <2>2, ResultKinds DEF Get, Call
    <2> QED
      BY <2>3, <2>6, <2>7, SafeCallSound
  <1>7. ASSUME NEW v \in Values, GetSet(k, v) PROVE Sound
    <2>1. PICK s : s = StringServer("GETSET", <<k>>)
      OBVIOUS
    <2>2. DbFormed(s.store) /\ s.reply.kind = "error"
      BY <1>1, <2>1, AnyKeyServed, AnswerFacts
    <2>3. SyncCall("GetSet", <<k, v>>, s, AsString(s.reply, Out), Out)
      BY <1>7, <2>1 DEF GetSet, Call
    <2>4. AsString(s.reply, Out).ret \in Codes /\ AsString(s.reply, Out).crash = FALSE
      BY ResultKinds
    <2> QED
      BY <2>2, <2>3, <2>4, RefusedAgrees, SafeCallSound
  <1>8. ASSUME NEW v \in Values, Set(k, v) PROVE Sound
    <2>1. PICK s : s = StringServer("SET", <<k, v, Plain>>)
      OBVIOUS
    <2>2. PICK res : res = Discard(s.reply, Out)
      OBVIOUS
    <2>3. DbFormed(s.store) /\ s.store[k].type = "string" /\ s.store[k].str = v /\ ~s.store[k].ttl
      <3>1. Plain.px = FALSE /\ Plain.nx = FALSE /\ Plain.xx = FALSE
        BY DEF Plain
      <3>2. Allowed(Plain, store[k]) /\ Plain.px \in BOOLEAN
        BY <3>1 DEF Allowed
      <3>3. PICK o : o = Plain
        OBVIOUS
      <3>4. o.px \in BOOLEAN /\ Allowed(o, store[k]) /\ s = StringServer("SET", <<k, v, o>>)
        BY <2>1, <3>2, <3>3
      <3>5. DbFormed(s.store) /\ s.store[k].type = "string" /\ s.store[k].str = v /\ s.store[k].ttl = o.px
        BY <1>1, <3>4, SetServed
      <3> QED
        BY <3>1, <3>3, <3>5
    <2>4. HasDone("Set", <<k, v>>, store, s.store, res.out)
      BY <2>3 DEF HasDone
    <2>5. Agrees("Set", <<k, v>>, s, res)
      BY <2>4, WriteAgrees DEF Reads
    <2>6. SyncCall("Set", <<k, v>>, s, res, Out) /\ res.ret \in Codes /\ res.crash = FALSE
      BY <1>8, <2>1, <2>2, ResultKinds DEF Set, Call
    <2> QED
      BY <2>3, <2>5, <2>6, SafeCallSound
  <1>9. ASSUME NEW v \in Values, AppendStr(k, v) PROVE Sound
    <2>1. PICK s : s = StringServer("APPEND", <<k, v>>)
      OBVIOUS
    <2>2. PICK res : res = AsInteger(s.reply, Out)
      OBVIOUS
    <2>3. PICK t : t = Joined(store[k].str, v)
      OBVIOUS
    <2>4. /\ DbFormed(s.store)
          /\ s.reply.kind # "error" => /\ s.reply.int = StrLen(t)
                                       /\ s.store[k].type = "string" /\ s.store[k].str = t
      BY <1>1, <2>1, <2>3, AppendServed
    <2>5. Went(s, res) => /\ res.out.int = StrLen(t)
                          /\ s.store[k].type = "string" /\ s.store[k].str = t
      BY <2>2, <2>4, Interpreted DEF Went
    <2>6. Went(s, res) => HasDone("Append", <<k, v>>, store, s.store, res.out)
      BY <2>3, <2>5 DEF HasDone
    <2>7. Agrees("Append", <<k, v>>, s, res)
      BY <2>6, WriteAgrees DEF Reads
    <2>8. SyncCall("Append", <<k, v>>, s, res, Out) /\ res.ret \in Codes /\ res.crash = FALSE
      BY <1>9, <2>1, <2>2, ResultKinds DEF AppendStr, Call
    <2> QED
      BY <2>4, <2>7, <2>8, SafeCallSound
  <1>10. ASSUME NEW v \in Values, NEW o \in Options, SetStringWithOption(k, v, o) PROVE Sound
    <2>1. PICK s : s = StringServer("SET", <<k, v, o>>)
      OBVIOUS
    <2>2. PICK res : res = AsSuccess(s.reply, Unset)
      OBVIOUS
    <2>3. /\ DbFormed(s.store)
          /\ Allowed(o, store[k]) => /\ s.reply.kind = "status" /\ s.store[k].type = "string"
                                     /\ s.store[k].str = v /\ s.store[k].ttl = o.px
          /\ ~Allowed(o, store[k]) => s.reply.kind = "nil" /\ s.store = store
      BY <1>1, <2>1, SetServed DEF Options
    <2>4. res.out.flag = Allowed(o, store[k])
      <3>1. res.out.flag = (s.reply.kind = "status")
        BY <2>2, Interpreted
      <3>2. (s.reply.kind = "status") = Allowed(o, store[k])
        <4>1. Allowed(o, store[k]) \in BOOLEAN
          BY DEF Allowed
        <4> QED
          BY <2>3, <4>1
      <3> QED
        BY <3>1, <3>2
    <2>5. HasDone("SetStringWithOption", <<k, v, o>>, store, s.store, res.out)
      BY <2>3, <2>4 DEF HasDone, Allowed
    <2>6. Agrees("SetStringWithOption", <<k, v, o>>, s, res)
      BY <2>5, WriteAgrees DEF Reads
    <2>7. SyncCall("SetStringWithOption", <<k, v, o>>, s, res, Unset) /\ res.ret \in Codes /\ res.crash = FALSE
      BY <1>10, <2>1, <2>2, ResultKinds DEF SetStringWithOption, Call
    <2> QED
      BY <2>3, <2>6, <2>7, SafeCallSound
  <1>11. ASSUME NEW op, NEW args, NEW n \in Int,
                \/ op = "Incr" /\ args = <<k>> /\ n = 1
                \/ op = "Decr" /\ args = <<k>> /\ n = -1
                \/ op = "Incrby" /\ args = <<k, n>>
                \/ op = "Decrby" /\ \E m \in Int : args = <<k, m>> /\ n = -m,
                SyncCall(op, args, StringServer("INCRBY", <<k, n>>),
                         AsInteger(StringServer("INCRBY", <<k, n>>).reply, Out), Out)
         PROVE  Sound
    <2>1. PICK s : s = StringServer("INCRBY", <<k, n>>)
      OBVIOUS
    <2>2. PICK res : res = AsInteger(s.reply, Out)
      OBVIOUS
    <2>3. /\ DbFormed(s.store)
          /\ s.reply.kind # "error" =>
                /\ s.reply.int = IntOf(store[k].str) + n
                /\ s.store[k].type = "string" /\ s.store[k].str = Num(s.reply.int)
      BY <1>1, <2>1, IncrServed
    <2>4. Went(s, res) =>
                /\ res.out.int = IntOf(store[k].str) + n
                /\ s.store[k].type = "string" /\ s.store[k].str = Num(res.out.int)
      BY <2>2, <2>3, Interpreted DEF Went
    <2>5. Went(s, res) => HasDone(op, args, store, s.store, res.out)
      <3>1. CASE op = "Incr" /\ args = <<k>> /\ n = 1
        BY <2>4, <3>1 DEF HasDone
      <3>2. CASE op = "Decr" /\ args = <<k>> /\ n = -1
        BY <2>4, <3>2 DEF HasDone
      <3>3. CASE op = "Incrby" /\ args = <<k, n>>
        BY <2>4, <3>3 DEF HasDone
      <3>4. CASE op = "Decrby" /\ \E m \in Int : args = <<k, m>> /\ n = -m
        <4>1. PICK m \in Int : args = <<k, m>> /\ n = -m
          BY <3>4
        <4> QED
          BY <2>4, <3>4, <4>1 DEF HasDone
      <3> QED
        BY <1>11, <3>1, <3>2, <3>3, <3>4
    <2>6. op \notin Reads /\ op # "HGetAll"
      BY <1>11 DEF Reads
    <2>7. Agrees(op, args, s, res)
      BY <2>5, <2>6, WriteAgrees
    <2>8. SyncCall(op, args, s, res, Out) /\ res.ret \in Codes /\ res.crash = FALSE
      BY <1>11, <2>1, <2>2, ResultKinds
    <2> QED
      BY <2>3, <2>6, <2>7, <2>8, SafeCallSound
  <1>12. CASE Incr(k) \/ Decr(k)
    <2>1. /\ Incr(k) => SyncCall("Incr", <<k>>, StringServer("INCRBY", <<k, 1>>),
                                 AsInteger(StringServer("INCRBY", <<k, 1>>).reply, Out), Out)
          /\ Decr(k) => SyncCall("Decr", <<k>>, StringServer("INCRBY", <<k, -1>>),
                                 AsInteger(StringServer("INCRBY", <<k, -1>>).reply, Out), Out)
      BY DEF Incr, Decr, Call
    <2>2. 1 \in Int /\ -1 \in Int
      OBVIOUS
    <2> QED
      BY <1>11, <1>12, <2>1, <2>2
  <1>13. ASSUME NEW n \in {-1, 1}, Incrby(k, n) \/ Decrby(k, n) PROVE Sound
    <2>1. n \in Int /\ -n \in Int
      OBVIOUS
    <2>2. PICK m : m = -n
      OBVIOUS
    <2>3. /\ Incrby(k, n) => SyncCall("Incrby", <<k, n>>, StringServer("INCRBY", <<k, n>>),
                                      AsInteger(StringServer("INCRBY", <<k, n>>).reply, Out), Out)
          /\ Decrby(k, n) => SyncCall("Decrby", <<k, n>>, StringServer("INCRBY", <<k, m>>),
                                      AsInteger(StringServer("INCRBY", <<k, m>>).reply, Out), Out)
      BY <2>2 DEF Incrby, Decrby, Call
    <2>4. CASE Incrby(k, n)
      BY <1>11, <2>1, <2>3, <2>4
    <2>5. CASE Decrby(k, n)
      <3>1. m \in Int /\ \E j \in Int : <<k, n>> = <<k, j>> /\ m = -j
        BY <2>1, <2>2
      <3> QED
        BY <1>11, <2>3, <2>5, <3>1
    <2> QED
      BY <1>13, <2>4, <2>5
  <1>14. ASSUME NEW ks \in Seq(Keys), MGet(ks) PROVE Sound
    <2>1. PICK s : s = MultiServer("MGET", ks)
      OBVIOUS
    <2>2. PICK res : res = AsArray(s.reply, Cleared)
      OBVIOUS
    <2>3. /\ DbFormed(s.store)
          /\ s.reply.kind # "error" =>
                s.store = store /\ res.out.arr = [i \in DOMAIN ks |-> store[ks[i]].str]
      BY <1>1, <2>1, <2>2, MGetServed
    <2>4. Went(s, res) => s.store = store /\ HandsOut("MGet", ks, store, res.out)
      BY <2>3 DEF HandsOut, Went
    <2>5. Agrees("MGet", ks, s, res)
      BY <2>4, ReadAgrees DEF Reads
    <2>6. SyncCall("MGet", ks, s, res, Cleared) /\ res.ret \in Codes /\ res.crash = FALSE
      BY <1>14, <2>1, <2>2, ResultKinds DEF MGet, Call
    <2> QED
      BY <2>3, <2>5, <2>6, SafeCallSound
  <1>15. CASE MSet(<<>>)
    <2>1. PICK s : s = MultiServer("MSET", <<>>)
      OBVIOUS
    <2>2. s = Refused
      BY <2>1 DEF MultiServer
    <2>3. DbFormed(s.store) /\ s.reply.kind = "error"
      BY <1>1, <2>2, AnswerFacts
    <2>4. /\ SyncCall("MSet", <<>>, s, AsStatus(s.reply, Out), Out)
          /\ AsStatus(s.reply, Out).ret \in Codes /\ AsStatus(s.reply, Out).crash = FALSE
      BY <1>15, <2>1, ResultKinds DEF MSet, Call
    <2> QED
      BY <2>3, <2>4, RefusedAgrees, SafeCallSound
  <1>16. ASSUME NEW p \in Pairs({k}), MSet(<<p>>) PROVE Sound
    <2>1. PICK v \in Values : p = <<k, v>>
      BY DEF Pairs
    <2>2. PICK s : s = MultiServer("MSET", << <<k, v>> >>)
      OBVIOUS
    <2>3. PICK res : res = AsStatus(s.reply, Out)
      OBVIOUS
    <2>4. DbFormed(s.store) /\ s.store[k].type = "string" /\ s.store[k].str = v
      BY <1>1, <2>2, MSetServed
    <2>5. ToSet(<< <<k, v>> >>) = {<<k, v>>}
      BY DEF ToSet
    <2>6. \A q \in ToSet(<< <<k, v>> >>) : s.store[q[1]].type = "string" /\ s.store[q[1]].str = q[2]
      BY <2>4, <2>5
    <2>7. HasDone("MSet", << <<k, v>> >>, store, s.store, res.out)
      BY <2>6 DEF HasDone
    <2>8. Agrees("MSet", << <<k, v>> >>, s, res)
      BY <2>7, WriteAgrees DEF Reads
    <2>9. SyncCall("MSet", << <<k, v>> >>, s, res, Out) /\ res.ret \in Codes /\ res.crash = FALSE
      BY <1>16, <2>1, <2>2, <2>3, ResultKinds DEF MSet, Call
    <2> QED
      BY <2>4, <2>8, <2>9, SafeCallSound
  <1>17. <<>> \in Seq(Keys) /\ \A j \in Keys : <<k, j>> \in Seq(Keys)
    OBVIOUS
  <1> QED
    BY <1>2, <1>3, <1>4, <1>5, <1>6, <1>7, <1>8, <1>9, <1>10, <1>12, <1>13, <1>14,
       <1>15, <1>16, <1>17 DEF KeyCalls

-----------------------------------------------------------------------------
(* The commands on hashes. *)

(* The elements of a finite set, each once. *)
LEMMA OrderFacts ==
    ASSUME NEW S, IsFiniteSet(S), NEW q, q = SetToSeq(S)
    PROVE  /\ q \in Seq(S) /\ Len(q) = Cardinality(S) /\ Cardinality(S) \in Nat
           /\ DOMAIN q = 1..Len(q) /\ ToSet(q) = S
           /\ \A x \in S : \E i \in 1..Len(q) : q[i] = x
  <1>1. PICK n \in Nat : n = Cardinality(S)
    BY FS_CardinalityType
  <1>2. ExistsBijection(1..n, S)
    BY <1>1, FS_CardinalityType
  <1>3. \E g \in [1..n -> S] : IsInjective(g)
    BY <1>2 DEF ExistsBijection, Bijection, Injection, IsInjective
  <1>4. q \in [1..n -> S] /\ IsInjective(q)
    BY <1>1, <1>3 DEF SetToSeq
  <1>5. q \in Seq(S) /\ Len(q) = n /\ DOMAIN q = 1..n
    BY <1>4
  <1>6. q \in Surjection(1..n, S)
    <2>1. q \in Injection(1..n, S)
      BY <1>4 DEF Injection, IsInjective
    <2>2. Cardinality(1..n) = n
      <3>1. 1 \in Int /\ n \in Int /\ 1..n = 1..n
        BY <1>1
      <3>2. Cardinality(1..n) = IF 1 > n THEN 0 ELSE n - 1 + 1
        BY <3>1, FS_Interval
      <3> QED
        BY <1>1, <3>2
    <2> QED
      BY <1>1, <2>1, <2>2, FS_Injection
  <1>7. \A x \in S : \E i \in 1..n : q[i] = x
    BY <1>6 DEF Surjection
  <1>8. ToSet(q) = S
    BY <1>4, <1>5, <1>7 DEF ToSet
  <1> QED
    BY <1>1, <1>5, <1>7, <1>8

Hashes == [Fields -> Strings \cup {Nil}]

(* The hash h with the pairs put into it. *)
Put(h, pairs) == [f \in Fields |-> IF f \in {p[1] : p \in pairs}
                                   THEN (CHOOSE p \in pairs : p[1] = f)[2] ELSE h[f]]

(* Pairs of a field and a text, at most one for a field. *)
Pairing(pairs) ==
    pairs \in SUBSET (Fields \X Strings) /\ \A p, q \in pairs : p[1] = q[1] => p = q

LEMMA PutFacts ==
    ASSUME NEW h \in Hashes, NEW pairs, Pairing(pairs)
    PROVE  /\ Put(h, pairs) \in Hashes
           /\ \A p \in pairs : Put(h, pairs)[p[1]] = p[2]
           /\ \A f \in Fields : Put(h, pairs)[f] = h[f] \/ \E p \in pairs : p[1] = f
  <1>1. pairs \in SUBSET (Fields \X Strings) /\ \A p, q \in pairs : p[1] = q[1] => p = q
    BY DEF Pairing
  <1>2. ASSUME NEW f \in Fields
        PROVE  /\ (IF f \in {p[1] : p \in pairs} THEN (CHOOSE p \in pairs : p[1] = f)[2] ELSE h[f])
                       \in Strings \cup {Nil}
    <2>1. CASE f \in {p[1] : p \in pairs}
      <3>1. PICK q : q = CHOOSE p \in pairs : p[1] = f
        OBVIOUS
      <3>2. q \in pairs
        BY <2>1, <3>1
      <3>3. q[2] \in Strings
        BY <1>1, <3>2
      <3> QED
        BY <2>1, <3>1, <3>3
    <2>2. CASE f \notin {p[1] : p \in pairs}
      BY <2>2 DEF Hashes
    <2> QED
      BY <2>1, <2>2
  <1>3. Put(h, pairs) \in Hashes
    BY <1>2 DEF Put, Hashes
  <1>4. ASSUME NEW p \in pairs PROVE Put(h, pairs)[p[1]] = p[2]
    <2>1. p[1] \in Fields /\ p[1] \in {q[1] : q \in pairs}
      BY <1>1
    <2>2. PICK r : r = CHOOSE q \in pairs : q[1] = p[1]
      OBVIOUS
    <2>3. r \in pairs /\ r[1] = p[1]
      BY <2>2
    <2>4. r = p
      BY <1>1, <2>3
    <2>5. Put(h, pairs)[p[1]] = r[2]
      BY <2>1, <2>2 DEF Put
    <2> QED
      BY <2>4, <2>5
  <1>5. \A f \in Fields : Put(h, pairs)[f] = h[f] \/ \E p \in pairs : p[1] = f
    BY DEF Put
  <1> QED
    BY <1>3, <1>4, <1>5

LEMMA PutOne ==
    ASSUME NEW h \in Hashes, NEW f \in Fields, NEW x
    PROVE  Put(h, {<<f, x>>}) = [h EXCEPT ![f] = x]
  <1>1. (CHOOSE p \in {<<f, x>>} : p[1] = f) = <<f, x>>
    OBVIOUS
  <1>2. \A g \in Fields : g \in {p[1] : p \in {<<f, x>>}} <=> g = f
    OBVIOUS
  <1>3. \A g \in Fields : Put(h, {<<f, x>>})[g] = IF g = f THEN x ELSE h[g]
    BY <1>1, <1>2 DEF Put
  <1>4. DOMAIN Put(h, {<<f, x>>}) = Fields /\ Put(h, {<<f, x>>}) = [g \in Fields |-> Put(h, {<<f, x>>})[g]]
    BY DEF Put
  <1>5. [h EXCEPT ![f] = x] = [g \in Fields |-> IF g = f THEN x ELSE h[g]]
    BY DEF Hashes
  <1> QED
    BY <1>3, <1>4, <1>5

(* The entry u with pairs put into its hash, or with the hash h. *)
AsHash(u, h) == [u EXCEPT !.type = "hash", !.hash = h]
Filled(u, pairs) == AsHash(u, Put(u.hash, pairs))
WithHash(u, h) == [u EXCEPT !.hash = h]

LEMMA HashEntry ==
    ASSUME NEW u, Raw(u), u.type \in {"none", "hash"}, NEW h \in Hashes
    PROVE  /\ Raw(WithHash(u, h)) /\ WithHash(u, h).type = u.type /\ WithHash(u, h).hash = h
           /\ Raw(AsHash(u, h)) /\ AsHash(u, h).type = "hash" /\ AsHash(u, h).hash = h
  <1>1. u \in Entries /\ u.str = Empty /\ Len(u.list) <= MaxLen
    BY DEF Raw
  <1>2. /\ [u EXCEPT !.type = "hash", !.hash = h] \in Entries
        /\ [u EXCEPT !.type = "hash", !.hash = h].type = "hash"
        /\ [u EXCEPT !.type = "hash", !.hash = h].hash = h
        /\ [u EXCEPT !.type = "hash", !.hash = h].str = Empty
        /\ [u EXCEPT !.type = "hash", !.hash = h].list = u.list
    BY <1>1 DEF Entries, Hashes
  <1>3. /\ [u EXCEPT !.hash = h] \in Entries
        /\ [u EXCEPT !.hash = h].type = u.type
        /\ [u EXCEPT !.hash = h].hash = h
        /\ [u EXCEPT !.hash = h].str = Empty
        /\ [u EXCEPT !.hash = h].list = u.list
    BY <1>1 DEF Entries, Hashes
  <1>4. Raw([u EXCEPT !.hash = h])
    BY <1>1, <1>3 DEF Raw
  <1>5. Raw([u EXCEPT !.type = "hash", !.hash = h])
    BY <1>1, <1>2 DEF Raw
  <1> QED
    BY <1>2, <1>3, <1>4, <1>5 DEF WithHash, AsHash

LEMMA PutServed ==
    ASSUME StoreFormed, NEW k \in Keys, store[k].type \in {"none", "hash"},
           NEW pairs, Pairing(pairs), NEW r
    PROVE  /\ DbFormed(On(k, Filled(store[k], pairs), r).store)
           /\ On(k, Filled(store[k], pairs), r).reply = r
           /\ On(k, Filled(store[k], pairs), r).store[k].hash = Put(store[k].hash, pairs)
           /\ store[k].hash \in Hashes
  <1>1. PICK u : u = store[k]
    OBVIOUS
  <1>2. Raw(u) /\ u.hash \in Hashes
    BY <1>1, EntryFacts DEF Entries, Hashes
  <1>3. PICK h : h = Put(u.hash, pairs)
    OBVIOUS
  <1>4. h \in Hashes
    BY <1>2, <1>3, PutFacts
  <1>5. PICK w : w = AsHash(u, h)
    OBVIOUS
  <1>6. Raw(w) /\ w.type = "hash" /\ w.hash = h
    <2>1. u.type \in {"none", "hash"} /\ h \in Hashes
      BY <1>1, <1>4
    <2> QED
      BY ONLY <1>2, <1>5, <2>1, HashEntry
  <1>7. w = Filled(store[k], pairs)
    BY <1>1, <1>3, <1>5 DEF Filled
  <1>8. DbFormed(On(k, w, r).store) /\ On(k, w, r).reply = r /\ On(k, w, r).store[k] = Kept(w)
    BY <1>6, OnFacts
  <1>9. Kept(w).hash = h
    BY <1>6, KeptFacts
  <1> QED
    BY <1>1, <1>2, <1>3, <1>7, <1>8, <1>9

(* The arguments of a command: the key and then a sequence. *)
LEMMA KeyAndMore ==
    ASSUME NEW k, NEW X, NEW xs \in Seq(X), NEW a, a = <<k>> \o xs
    PROVE  /\ a[1] = k /\ Len(a) = Len(xs) + 1 /\ Tail(a) = xs
           /\ \A i \in 1..Len(xs) : a[i + 1] = xs[i]
  <1>1. <<k>> \in Seq(X \cup {k}) /\ xs \in Seq(X \cup {k})
    OBVIOUS
  <1>2. a \in Seq(X \cup {k}) /\ a[1] = k /\ Len(a) = Len(xs) + 1
    BY <1>1
  <1>3. \A i \in 1..Len(xs) : a[i + 1] = xs[i]
    BY <1>1
  <1>4. Tail(a) = xs
    BY <1>1, <1>2, <1>3
  <1> QED
    BY <1>2, <1>3, <1>4

LEMMA HSetServed ==
    ASSUME StoreFormed, NEW k \in Keys, NEW f \in Fields, NEW v \in Values,
           NEW verb \in {"HSET", "HSETNX"}, NEW s, s = HashServer(verb, <<k, f, v>>)
    PROVE  /\ DbFormed(s.store)
           /\ \/ s.reply.kind = "error"
              \/ verb = "HSETNX" /\ s.reply = IntRep(0)
              \/ /\ verb = "HSETNX" => store[k].hash[f] = Nil
                 /\ s.store[k].hash = [store[k].hash EXCEPT ![f] = v]
  <1>1. PICK pairs : pairs = {<<f, v>>}
    OBVIOUS
  <1>2. Pairing(pairs)
    BY <1>1, StringKinds DEF Pairing
  <1>3. \/ s = Refused
        \/ verb = "HSETNX" /\ s = Answer(IntRep(0))
        \/ /\ verb = "HSETNX" => store[k].hash[f] = Nil
           /\ store[k].type \in {"none", "hash"}
           /\ \E r : s = On(k, Filled(store[k], pairs), r)
    <2>1. CASE verb = "HSET"
      <3>1. \/ s = Refused
            \/ /\ store[k].type \in {"none", "hash"}
               /\ s = On(k, Filled(store[k], {<<f, v>>}), IntRep(Bool(store[k].hash[f] = Nil)))
        BY <2>1 DEF HashServer, Put, Filled, AsHash
      <3> QED
        BY <1>1, <2>1, <3>1
    <2>2. CASE verb = "HSETNX"
      <3>1. \/ s = Refused
            \/ s = Answer(IntRep(0))
            \/ /\ store[k].type \in {"none", "hash"} /\ store[k].hash[f] = Nil
               /\ s = On(k, Filled(store[k], {<<f, v>>}), IntRep(1))
        BY <2>2 DEF HashServer, Put, Filled, AsHash
      <3> QED
        BY <1>1, <2>2, <3>1
    <2> QED
      BY <2>1, <2>2
  <1>4. CASE s = Refused
    BY <1>4, AnswerFacts
  <1>5. CASE verb = "HSETNX" /\ s = Answer(IntRep(0))
    BY <1>5, AnswerFacts
  <1>6. CASE /\ verb = "HSETNX" => store[k].hash[f] = Nil
             /\ store[k].type \in {"none", "hash"} /\ \E r : s = On(k, Filled(store[k], pairs), r)
    <2>1. PICK r : s = On(k, Filled(store[k], pairs), r)
      BY <1>6
    <2>2. /\ DbFormed(On(k, Filled(store[k], pairs), r).store)
          /\ On(k, Filled(store[k], pairs), r).store[k].hash = Put(store[k].hash, pairs)
          /\ store[k].hash \in Hashes
      BY ONLY StoreFormed, k \in Keys, <1>2, <1>6, PutServed
    <2>3. PICK h : h = store[k].hash
      OBVIOUS
    <2>4. Put(h, pairs) = [h EXCEPT ![f] = v]
      <3>1. h \in Hashes
        BY <2>2, <2>3
      <3>2. Put(h, {<<f, v>>}) = [h EXCEPT ![f] = v]
        BY ONLY <3>1, f \in Fields, PutOne, Zenon
      <3> QED
        BY ONLY <1>1, <3>2
    <2> QED
      BY <1>6, <2>1, <2>2, <2>3, <2>4
  <1> QED
    BY <1>3, <1>4, <1>5, <1>6

LEMMA HMSetServed ==
    ASSUME StoreFormed, NEW k \in Keys, NEW ps \in Seq(Fields \X Strings), Pairing(ToSet(ps)),
           NEW s, s = HashServer("HMSET", <<k>> \o ps)
    PROVE  /\ DbFormed(s.store)
           /\ \/ s.reply.kind = "error"
              \/ /\ \A p \in ToSet(ps) : s.store[k].hash[p[1]] = p[2]
                 /\ \A f \in Fields : \/ s.store[k].hash[f] = store[k].hash[f]
                                       \/ \E p \in ToSet(ps) : p[1] = f
  <1>1. PICK a : a = <<k>> \o ps
    OBVIOUS
  <1>2. a[1] = k /\ Tail(a) = ps
    BY <1>1, KeyAndMore
  <1>3. s = HashServer("HMSET", a)
    BY <1>1
  <1>4. \/ s = Refused
        \/ /\ store[k].type \in {"none", "hash"}
           /\ s = On(k, Filled(store[k], ToSet(ps)), StatusRep)
    <2>1. \/ s = Refused
          \/ /\ store[a[1]].type \in {"none", "hash"}
             /\ s = On(a[1], Filled(store[a[1]], ToSet(Tail(a))), StatusRep)
      BY <1>3 DEF HashServer, Put, Filled, AsHash
    <2> QED
      BY <1>2, <2>1
  <1>5. CASE s = Refused
    BY <1>5, AnswerFacts
  <1>6. CASE store[k].type \in {"none", "hash"} /\ s = On(k, Filled(store[k], ToSet(ps)), StatusRep)
    <2>1. PICK pairs : pairs = ToSet(ps)
      OBVIOUS
    <2>2. Pairing(pairs)
      BY <2>1
    <2>3. /\ DbFormed(On(k, Filled(store[k], pairs), StatusRep).store)
          /\ On(k, Filled(store[k], pairs), StatusRep).store[k].hash = Put(store[k].hash, pairs)
          /\ store[k].hash \in Hashes
      BY ONLY StoreFormed, k \in Keys, <1>6, <2>2, PutServed
    <2>4. PICK h : h = store[k].hash
      OBVIOUS
    <2>5. /\ \A p \in pairs : Put(h, pairs)[p[1]] = p[2]
          /\ \A f \in Fields : Put(h, pairs)[f] = h[f] \/ \E p \in pairs : p[1] = f
      BY <2>2, <2>3, <2>4, PutFacts
    <2> QED
      BY <1>6, <2>1, <2>3, <2>4, <2>5
  <1> QED
    BY <1>4, <1>5, <1>6

LEMMA HIncrServed ==
    ASSUME StoreFormed, NEW k \in Keys, NEW f \in Fields, NEW n \in Int,
           NEW s, s = HashServer("HINCRBY", <<k, f, n>>)
    PROVE  /\ DbFormed(s.store)
           /\ \/ s.reply.kind = "error"
              \/ /\ s.reply.kind = "integer" /\ s.reply.int = IntOf(store[k].hash[f]) + n
                 /\ s.store[k].hash = [store[k].hash EXCEPT ![f] = Num(s.reply.int)]
  <1>1. PICK u : u = store[k]
    OBVIOUS
  <1>2. PICK m : m = IntOf(u.hash[f]) + n
    OBVIOUS
  <1>3. PICK pairs : pairs = {<<f, Num(m)>>}
    OBVIOUS
  <1>4. m \in Int
    <2>1. u.hash[f] \in Strings \cup {Nil}
      BY <1>1, EntryFacts DEF Entries
    <2>2. u.hash[f] # Nil => u.hash[f].n \in Int
      BY <2>1 DEF Strings
    <2>3. IntOf(u.hash[f]) = 0 \/ (u.hash[f] # Nil /\ IntOf(u.hash[f]) = u.hash[f].n)
      BY DEF IntOf
    <2> QED
      BY <1>2, <2>2, <2>3
  <1>5. Pairing(pairs)
    BY <1>3, <1>4, StringKinds DEF Pairing
  <1>6. \/ s = Refused
        \/ /\ store[k].type \in {"none", "hash"}
           /\ s = On(k, Filled(store[k], pairs), IntRep(m))
    BY <1>1, <1>2, <1>3 DEF HashServer, Put, Filled, AsHash
  <1>7. CASE s = Refused
    BY <1>7, AnswerFacts
  <1>8. CASE store[k].type \in {"none", "hash"} /\ s = On(k, Filled(store[k], pairs), IntRep(m))
    <2>1. /\ DbFormed(s.store) /\ s.reply = IntRep(m) /\ s.store[k].hash = Put(store[k].hash, pairs)
          /\ store[k].hash \in Hashes
      BY <1>5, <1>8, PutServed
    <2>2. PICK h : h = store[k].hash
      OBVIOUS
    <2>3. Put(h, pairs) = [h EXCEPT ![f] = Num(m)]
      <3>1. h \in Hashes
        BY <2>1, <2>2
      <3>2. Put(h, {<<f, Num(m)>>}) = [h EXCEPT ![f] = Num(m)]
        BY ONLY <3>1, f \in Fields, PutOne, Zenon
      <3> QED
        BY ONLY <1>3, <3>2
    <2>4. s.reply.kind = "integer" /\ s.reply.int = m
      BY <2>1 DEF IntRep, Reply
    <2> QED
      BY <1>1, <1>2, <2>1, <2>2, <2>3, <2>4
  <1> QED
    BY <1>6, <1>7, <1>8

(* The hash h without the fields G. *)
Without(h, G) == [f \in Fields |-> IF f \in G THEN Nil ELSE h[f]]

LEMMA HDelServed ==
    ASSUME StoreFormed, NEW k \in Keys, NEW fs \in Seq(Fields),
           NEW s, s = HashServer("HDEL", <<k>> \o fs)
    PROVE  /\ DbFormed(s.store)
           /\ \/ s.reply.kind = "error"
              \/ /\ s.store[k].hash = Without(store[k].hash, ToSet(fs))
                 /\ s.reply = IntRep(Cardinality(ToSet(fs) \cap Present(store[k])))
  <1>1. PICK u : u = store[k]
    OBVIOUS
  <1>2. PICK a : a = <<k>> \o fs
    OBVIOUS
  <1>3. a[1] = k /\ Tail(a) = fs
    BY <1>2, KeyAndMore
  <1>4. PICK h : h = [f \in Fields |-> IF f \in ToSet(fs) THEN Nil ELSE u.hash[f]]
    OBVIOUS
  <1>5. \/ s = Refused
        \/ /\ u.type \in {"none", "hash"}
           /\ s = On(k, WithHash(u, h), IntRep(Cardinality(ToSet(fs) \cap Present(u))))
    <2>1. s = HashServer("HDEL", a)
      BY <1>2
    <2> QED
      BY <1>1, <1>3, <1>4, <2>1 DEF HashServer, WithHash
  <1>6. Raw(u) /\ u.hash \in Hashes /\ (u.type = "none" => u = Missing)
    BY <1>1, EntryFacts DEF Entries, Hashes
  <1>7. h \in Hashes /\ h = Without(u.hash, ToSet(fs))
    BY <1>4, <1>6 DEF Hashes, Without
  <1>8. CASE s = Refused
    BY <1>8, AnswerFacts
  <1>9. CASE /\ u.type \in {"none", "hash"}
             /\ s = On(k, WithHash(u, h), IntRep(Cardinality(ToSet(fs) \cap Present(u))))
    <2>1. PICK r : r = IntRep(Cardinality(ToSet(fs) \cap Present(u)))
      OBVIOUS
    <2>2. PICK w : w = WithHash(u, h)
      OBVIOUS
    <2>3. Raw(w) /\ w.type = u.type /\ w.hash = h
      BY <1>6, <1>7, <1>9, <2>2, HashEntry
    <2>4. DbFormed(s.store) /\ s.store[k] = Kept(w) /\ s.reply = r
      BY <1>9, <2>1, <2>2, <2>3, OnFacts
    <2>5. Kept(w).hash = h
      <3>1. CASE u.type = "hash"
        BY <2>3, <3>1, KeptFacts
      <3>2. CASE u.type = "none"
        <4>1. Kept(w) = Missing /\ u.hash = Missing.hash
          BY <1>6, <2>3, <3>2, KeptFacts
        <4>2. Missing.hash = [f \in Fields |-> Nil]
          BY DEF Missing
        <4>3. h = [f \in Fields |-> Nil]
          BY <1>4, <4>1, <4>2
        <4> QED
          BY <4>1, <4>2, <4>3
      <3> QED
        BY <1>9, <3>1, <3>2
    <2> QED
      BY <1>1, <1>7, <2>1, <2>4, <2>5
  <1> QED
    BY <1>5, <1>8, <1>9

LEMMA PresentFacts ==
    ASSUME StoreFormed, NEW k \in Keys
    PROVE  /\ IsFiniteSet(Present(store[k])) /\ Present(store[k]) \subseteq Fields
           /\ \A f \in Fields : store[k].hash[f] \in Strings \cup {Nil}
           /\ \A f \in Present(store[k]) : store[k].hash[f] \in Strings
  <1>1. Present(store[k]) \in SUBSET Fields
    BY DEF Present
  <1>2. \A f \in Fields : store[k].hash[f] \in Strings \cup {Nil}
    BY EntryFacts DEF Entries
  <1>3. IsFiniteSet(Present(store[k]))
    BY <1>1, FieldsAssumption, FS_Subset
  <1> QED
    BY <1>1, <1>2, <1>3 DEF Present

(* An array of n elements, and the texts ParseStringArray makes of them. *)
Array(a, n, X) == DOMAIN a = 1..n /\ \A i \in 1..n : Str(a[i]) \in X
Texts(a, n) == [i \in 1..n |-> Str(a[i])]

LEMMA ArrayResult ==
    ASSUME NEW n \in Nat, NEW a, NEW X, Array(a, n, X)
    PROVE  /\ Texts(a, n) \in Seq(X) /\ Len(Texts(a, n)) = n /\ DOMAIN Texts(a, n) = 1..n
           /\ AsArray(ArrayRep(a), Cleared).out.arr = Texts(a, n)
           /\ AsArray(ArrayRep(a), Out).out.arr = <<Longer>> \o Texts(a, n)
  <1>1. PICK b : b = [i \in 1..n |-> Str(a[i])]
    OBVIOUS
  <1>2. b \in Seq(X) /\ Len(b) = n /\ DOMAIN b = 1..n
    BY <1>1 DEF Array
  <1>3. b = [i \in DOMAIN ArrayRep(a).arr |-> Str(ArrayRep(a).arr[i])]
    BY <1>1 DEF ArrayRep, Reply, Array
  <1>4. ArrayRep(a).kind = "array"
    BY DEF ArrayRep, Reply
  <1>5. ASSUME NEW o, NEW e, o = [e EXCEPT !.arr = @ \o b]
        PROVE  AsArray(ArrayRep(a), e).out = o
    <2>1. AsArray(ArrayRep(a), e) = Result(REDIS_OK, o)
      BY <1>3, <1>4, <1>5 DEF AsArray
    <2> QED
      BY <2>1 DEF Result
  <1>6. [Cleared EXCEPT !.arr = @ \o b].arr = <<>> \o b /\ <<>> \o b = b
    <2>1. [Cleared EXCEPT !.arr = @ \o b].arr = <<>> \o b
      BY OutParameters
    <2>2. <<>> \o b = b
      BY ONLY <1>2
    <2> QED
      BY <2>1, <2>2
  <1>7. [Out EXCEPT !.arr = @ \o b].arr = <<Longer>> \o b
    BY OutParameters
  <1>8. Texts(a, n) = b
    BY <1>1 DEF Texts
  <1> QED
    BY <1>2, <1>5, <1>6, <1>7, <1>8

LEMMA HGetServed ==
    ASSUME StoreFormed, NEW k \in Keys, NEW f \in Fields, NEW s, s = HashServer("HGET", <<k, f>>)
    PROVE  /\ DbFormed(s.store)
           /\ \/ s.reply.kind \in {"error", "nil"}
              \/ s.reply.kind = "string" /\ s.store = store /\ s.reply.str = store[k].hash[f]
  <1>1. s = Refused \/ s = Answer(Bulk(store[k].hash[f]))
    BY DEF HashServer
  <1>2. CASE s = Refused
    BY <1>2, AnswerFacts
  <1>3. CASE s = Answer(Bulk(store[k].hash[f]))
    <2>1. s.store = store /\ DbFormed(s.store) /\ s.reply = Bulk(store[k].hash[f])
      BY <1>3, AnswerFacts
    <2> QED
      BY <2>1 DEF Bulk, NilRep, Reply
  <1> QED
    BY <1>1, <1>2, <1>3

LEMMA HMGetServed ==
    ASSUME StoreFormed, NEW k \in Keys, NEW fs \in Seq(Fields), NEW s, s = HashServer("HMGET", <<k>> \o fs)
    PROVE  /\ DbFormed(s.store)
           /\ \/ s.reply.kind = "error"
              \/ /\ s.store = store
                 /\ AsArray(s.reply, Cleared).out.arr = [i \in DOMAIN fs |-> Str(store[k].hash[fs[i]])]
  <1>1. PICK a : a = <<k>> \o fs
    OBVIOUS
  <1>2. a[1] = k /\ Len(a) = Len(fs) + 1 /\ \A i \in 1..Len(fs) : a[i + 1] = fs[i]
    BY <1>1, KeyAndMore
  <1>3. PICK n \in Nat : n = Len(fs)
    OBVIOUS
  <1>4. PICK e : e = [i \in 1..(Len(a) - 1) |-> store[a[1]].hash[a[i + 1]]]
    OBVIOUS
  <1>5. s = Refused \/ s = Answer(ArrayRep(e))
    <2>1. s = HashServer("HMGET", a)
      BY <1>1
    <2> QED
      BY <1>4, <2>1 DEF HashServer
  <1>6. DOMAIN e = 1..n /\ \A i \in 1..n : fs[i] \in Fields /\ e[i] = store[k].hash[fs[i]]
    BY <1>2, <1>3, <1>4
  <1>7. Array(e, n, Strings)
    <2>1. \A i \in 1..n : e[i] \in Strings \cup {Nil}
      BY <1>6, PresentFacts
    <2>2. \A i \in 1..n : Str(e[i]) \in Strings
      BY <2>1, StringKinds DEF Str
    <2> QED
      BY <1>6, <2>2 DEF Array
  <1>8. AsArray(ArrayRep(e), Cleared).out.arr = Texts(e, n)
    BY <1>7, ArrayResult
  <1>9. Texts(e, n) = [i \in DOMAIN fs |-> Str(store[k].hash[fs[i]])]
    BY <1>3, <1>6 DEF Texts
  <1> QED
    BY <1>5, <1>8, <1>9, AnswerFacts

(* The names of the fields, and their values, in the order of the reply. *)
LEMMA NamesAreTexts ==
    ASSUME NEW f \in Fields
    PROVE  Name(f) # Nil /\ Str(Name(f)) = Name(f)
  <1>1. Name(f).t = f /\ Nil.t = "nil" /\ f # "nil"
    BY FieldsAssumption DEF Name, Nil
  <1>2. Name(f) # Nil
    BY <1>1
  <1> QED
    BY <1>2 DEF Str

LEMMA HKeysServed ==
    ASSUME StoreFormed, NEW k \in Keys, NEW s, s = HashServer("HKEYS", <<k>>)
    PROVE  /\ DbFormed(s.store)
           /\ \/ s.reply.kind = "error"
              \/ /\ s.store = store
                 /\ ToSet(AsArray(s.reply, Cleared).out.arr) = {Name(f) : f \in Present(store[k])}
  <1>1. PICK P : P = Present(store[k])
    OBVIOUS
  <1>2. PICK q : q = SetToSeq(P)
    OBVIOUS
  <1>3. IsFiniteSet(P) /\ P \subseteq Fields
    BY <1>1, PresentFacts
  <1>4. PICK n \in Nat : n = Len(q) /\ DOMAIN q = 1..n
    BY <1>2, <1>3, OrderFacts
  <1>5. (\A i \in 1..n : q[i] \in P) /\ \A x \in P : \E i \in 1..n : q[i] = x
    BY <1>2, <1>3, <1>4, OrderFacts
  <1>6. PICK e : e = [i \in DOMAIN q |-> Name(q[i])]
    OBVIOUS
  <1>7. s = Refused \/ s = Answer(ArrayRep(e))
    BY <1>1, <1>2, <1>6 DEF HashServer
  <1>8. DOMAIN e = 1..n /\ \A i \in 1..n : e[i] = Name(q[i]) /\ Str(e[i]) = Name(q[i])
    <2>1. DOMAIN e = 1..n /\ \A i \in 1..n : e[i] = Name(q[i])
      BY <1>4, <1>6
    <2>2. \A i \in 1..n : Str(Name(q[i])) = Name(q[i])
      BY <1>3, <1>5, NamesAreTexts
    <2> QED
      BY <2>1, <2>2
  <1>9. Array(e, n, {Name(f) : f \in P})
    BY <1>5, <1>8 DEF Array
  <1>10. AsArray(ArrayRep(e), Cleared).out.arr = Texts(e, n) /\ DOMAIN Texts(e, n) = 1..n
    BY <1>9, ArrayResult
  <1>11. \A i \in 1..n : Texts(e, n)[i] = Name(q[i])
    BY <1>8 DEF Texts
  <1>12. ToSet(Texts(e, n)) = {Name(f) : f \in P}
    BY <1>5, <1>10, <1>11 DEF ToSet
  <1> QED
    BY <1>1, <1>7, <1>10, <1>12, AnswerFacts

LEMMA HValsServed ==
    ASSUME StoreFormed, NEW k \in Keys, NEW s, s = HashServer("HVALS", <<k>>)
    PROVE  /\ DbFormed(s.store)
           /\ \/ s.reply.kind = "error"
              \/ /\ s.store = store
                 /\ Len(AsArray(s.reply, Out).out.arr) = Len(Out.arr) + Cardinality(Present(store[k]))
                 /\ ToSet(AsArray(s.reply, Out).out.arr) =
                        ToSet(Out.arr) \cup {store[k].hash[f] : f \in Present(store[k])}
  <1>1. PICK P : P = Present(store[k])
    OBVIOUS
  <1>2. PICK h : h = store[k].hash
    OBVIOUS
  <1>3. PICK q : q = SetToSeq(P)
    OBVIOUS
  <1>4. IsFiniteSet(P) /\ \A f \in P : h[f] \in Strings /\ Str(h[f]) = h[f]
    BY <1>2, <1>1, PresentFacts, StringKinds DEF Str
  <1>5. PICK n \in Nat : n = Len(q) /\ DOMAIN q = 1..n /\ n = Cardinality(P)
    BY <1>3, <1>4, OrderFacts
  <1>6. (\A i \in 1..n : q[i] \in P) /\ \A x \in P : \E i \in 1..n : q[i] = x
    BY <1>3, <1>4, <1>5, OrderFacts
  <1>7. PICK e : e = [i \in DOMAIN q |-> h[q[i]]]
    OBVIOUS
  <1>8. s = Refused \/ s = Answer(ArrayRep(e))
    BY <1>2, <1>1, <1>3, <1>7 DEF HashServer
  <1>9. DOMAIN e = 1..n /\ \A i \in 1..n : e[i] = h[q[i]] /\ Str(e[i]) = h[q[i]]
    BY <1>4, <1>5, <1>6, <1>7
  <1>10. Array(e, n, Strings)
    BY <1>4, <1>6, <1>9 DEF Array
  <1>11. PICK b : b = Texts(e, n)
    OBVIOUS
  <1>12. AsArray(ArrayRep(e), Out).out.arr = <<Longer>> \o b /\ b \in Seq(Strings) /\ Len(b) = n
    BY <1>10, <1>11, ArrayResult
  <1>13. \A i \in 1..n : b[i] = h[q[i]]
    BY <1>9, <1>11 DEF Texts
  <1>14. PICK c : c = <<Longer>> \o b
    OBVIOUS
  <1>15. c \in Seq(Strings) /\ Len(c) = n + 1 /\ c[1] = Longer /\ \A i \in 1..n : c[i + 1] = b[i]
    BY <1>12, <1>14, StringKinds
  <1>16. ToSet(c) = {Longer} \cup {h[f] : f \in P}
    <2>1. DOMAIN c = 1..(n + 1)
      BY <1>15
    <2>2. \A i \in 1..(n + 1) : i = 1 \/ (i - 1 \in 1..n /\ c[i] = b[i - 1])
      BY <1>15
    <2>3. \A f \in P : \E i \in 1..(n + 1) : c[i] = h[f]
      BY <1>6, <1>13, <1>15
    <2>4. ASSUME NEW x \in ToSet(c) PROVE x \in {Longer} \cup {h[f] : f \in P}
      <3>1. PICK i \in 1..(n + 1) : x = c[i]
        BY <2>1 DEF ToSet
      <3>2. CASE i = 1
        BY <1>15, <3>1, <3>2
      <3>3. CASE i # 1
        <4>1. i - 1 \in 1..n /\ x = b[i - 1]
          BY <2>2, <3>1, <3>3
        <4>2. x = h[q[i - 1]] /\ q[i - 1] \in P
          BY <1>6, <1>13, <4>1
        <4> QED
          BY <4>2
      <3> QED
        BY <3>2, <3>3
    <2>5. Longer \in ToSet(c)
      <3>1. 1 \in 1..(n + 1)
        OBVIOUS
      <3> QED
        BY <1>15, <2>1, <3>1 DEF ToSet
    <2>6. ASSUME NEW f \in P PROVE h[f] \in ToSet(c)
      BY <2>1, <2>3 DEF ToSet
    <2> QED
      BY ONLY <2>4, <2>5, <2>6
  <1>17. Out.arr = <<Longer>> /\ Len(Out.arr) = 1 /\ ToSet(Out.arr) = {Longer}
    BY OutParameters DEF ToSet
  <1>18. CASE s = Refused
    BY <1>18, AnswerFacts
  <1>19. CASE s = Answer(ArrayRep(e))
    <2>1. DbFormed(s.store) /\ s.store = store /\ s.reply = ArrayRep(e)
      BY <1>19, AnswerFacts
    <2>2. AsArray(s.reply, Out).out.arr = c
      BY <1>12, <1>14, <2>1
    <2>3. Len(c) = Len(Out.arr) + Cardinality(Present(store[k]))
      BY <1>1, <1>5, <1>15, <1>17
    <2>4. ToSet(c) = ToSet(Out.arr) \cup {store[k].hash[f] : f \in Present(store[k])}
      BY <1>2, <1>1, <1>16, <1>17
    <2> QED
      BY <2>1, <2>2, <2>3, <2>4
  <1> QED
    BY <1>8, <1>18, <1>19

LEMMA OddAndEven ==
    ASSUME NEW n \in Nat, NEW i \in 1..n
    PROVE  /\ 2 * i - 1 \in 1..(2 * n) /\ 2 * i \in 1..(2 * n)
           /\ (2 * i - 1) % 2 = 1 /\ (2 * i) % 2 = 0
           /\ ((2 * i - 1) + 1) \div 2 = i /\ (2 * i) \div 2 = i
  <1>1. 2 * i - 1 \in 1..(2 * n) /\ 2 * i \in 1..(2 * n)
    OBVIOUS
  <1>2. (2 * i - 1) % 2 = 1
    OBVIOUS
  <1>3. (2 * i) % 2 = 0 /\ (2 * i) \div 2 = i
    OBVIOUS
  <1>4. (2 * i - 1) + 1 = 2 * i
    OBVIOUS
  <1> QED
    BY <1>1, <1>2, <1>3, <1>4

(* The indexes ParseStringMap's loop takes of a reply of n pairs. *)
LEMMA LoopFacts ==
    ASSUME NEW n \in Nat, n <= Cardinality(Fields), Cardinality(Fields) \in Nat
    PROVE  /\ n = 0 => ReadsBehind(2 * n)
           /\ n > 0 => ~ReadsBehind(2 * n)
           /\ n > 0 => \A i \in Taken(2 * n) : \E j \in 1..n : i + 1 = 2 * j - 1 /\ i + 2 = 2 * j
           /\ n > 0 => \A j \in 1..n : \E i \in Taken(2 * n) : i + 1 = 2 * j - 1 /\ i + 2 = 2 * j
  <1>1. Word \in Nat /\ Word > 1 /\ 2 * n < Word
    BY WordAssumption
  <1>2. CASE n = 0
    <2>1. (2 * n - 1) % Word = Word - 1
      <3>1. 2 * n - 1 = -1
        BY <1>2
      <3>2. (-1) % Word = Word - 1
        BY <1>1
      <3> QED
        BY <3>1, <3>2
    <2>2. 0 \in Taken(2 * n)
      BY <1>1, <2>1 DEF Taken
    <2>3. 0 + 1 >= 2 * n
      BY <1>2
    <2> QED
      BY <1>2, <2>2, <2>3 DEF ReadsBehind
  <1>3. CASE n > 0
    <2>1. (2 * n - 1) % Word = 2 * n - 1
      BY <1>1, <1>3
    <2>2. Taken(2 * n) = {i \in 0..(2 * n - 2) : i % 2 = 0}
      <3>1. (2 * n - 1) - 1 = 2 * n - 2
        OBVIOUS
      <3> QED
        BY <2>1, <3>1 DEF Taken
    <2>3. ~ReadsBehind(2 * n)
      BY <2>2 DEF ReadsBehind
    <2>4. ASSUME NEW i \in Taken(2 * n) PROVE \E j \in 1..n : i + 1 = 2 * j - 1 /\ i + 2 = 2 * j
      <3>1. i \in 0..(2 * n - 2) /\ i % 2 = 0
        BY <2>2, <2>4
      <3>2. PICK m : m = i \div 2
        OBVIOUS
      <3>3. m \in Int /\ i = 2 * m
        BY <3>1, <3>2
      <3>4. m + 1 \in 1..n /\ i + 1 = 2 * (m + 1) - 1 /\ i + 2 = 2 * (m + 1)
        BY <3>1, <3>3
      <3> QED
        BY <3>4
    <2>5. ASSUME NEW j \in 1..n PROVE \E i \in Taken(2 * n) : i + 1 = 2 * j - 1 /\ i + 2 = 2 * j
      <3>1. PICK i : i = 2 * j - 2
        OBVIOUS
      <3>2. i \in 0..(2 * n - 2) /\ i % 2 = 0 /\ i + 1 = 2 * j - 1 /\ i + 2 = 2 * j
        BY <3>1
      <3> QED
        BY <2>2, <3>2
    <2> QED
      BY <1>3, <2>3, <2>4, <2>5
  <1> QED
    BY <1>2, <1>3

(* The reply of HGETALL: names at the odd places, values at the even ones. *)
MapServed(k, s, res) ==
    /\ DbFormed(s.store)
    /\ \/ s.reply.kind = "error" /\ ~res.crash
       \/ /\ s.reply.kind = "array" /\ s.store = store
          /\ res.crash <=> Present(store[k]) = {}
          /\ ~res.crash => res.out.map = {<<Name(f), store[k].hash[f]>> : f \in Present(store[k])}

LEMMA HGetAllServed ==
    ASSUME StoreFormed, NEW k \in Keys, NEW s, s = HashServer("HGETALL", <<k>>),
           NEW res, res = AsMap(s.reply, Unmapped)
    PROVE  MapServed(k, s, res)
  <1>1. PICK P : P = Present(store[k])
    OBVIOUS
  <1>2. PICK h : h = store[k].hash
    OBVIOUS
  <1>3. PICK q : q = SetToSeq(P)
    OBVIOUS
  <1>4. IsFiniteSet(P) /\ P \subseteq Fields /\ \A f \in P : h[f] \in Strings
    BY <1>1, <1>2, PresentFacts
  <1>5. PICK n \in Nat : n = Len(q) /\ DOMAIN q = 1..n /\ n = Cardinality(P)
    BY <1>3, <1>4, OrderFacts
  <1>6. (\A i \in 1..n : q[i] \in P) /\ \A x \in P : \E i \in 1..n : q[i] = x
    BY <1>3, <1>4, <1>5, OrderFacts
  <1>7. PICK e : e = [i \in 1..(2 * n) |->
                        IF i % 2 = 1 THEN Name(q[(i + 1) \div 2]) ELSE h[q[i \div 2]]]
    OBVIOUS
  <1>8. s = Refused \/ s = Answer(ArrayRep(e))
    <2>1. e = [i \in 1..(2 * Len(q)) |->
                  IF i % 2 = 1 THEN Name(q[(i + 1) \div 2]) ELSE h[q[i \div 2]]]
      BY <1>5, <1>7
    <2> QED
      BY <1>1, <1>2, <1>3, <2>1 DEF HashServer
  <1>9. CASE s = Refused
    <2>1. DbFormed(s.store) /\ s.reply.kind = "error"
      BY <1>9, AnswerFacts
    <2>2. ~res.crash
      BY <2>1, ResultKinds
    <2> QED
      BY <2>1, <2>2 DEF MapServed
  <1>10. CASE s = Answer(ArrayRep(e))
    <2>1. DbFormed(s.store) /\ s.store = store /\ s.reply = ArrayRep(e)
      BY <1>10, AnswerFacts
    <2>2. s.reply.kind = "array" /\ s.reply.arr = e
      BY <2>1 DEF ArrayRep, Reply
    <2>3. Len(e) = 2 * n
      BY <1>7
    <2>4. n <= Cardinality(Fields) /\ Cardinality(Fields) \in Nat
      BY <1>4, <1>5, FieldsAssumption, FS_Subset, FS_CardinalityType
    <2>5. CASE n = 0
      <3>1. P = {}
        BY <1>6, <2>5
      <3>2. ReadsBehind(2 * n)
        BY <2>4, <2>5, LoopFacts
      <3>3. ReadsBehind(Len(s.reply.arr))
        BY <2>2, <2>3, <3>2
      <3>4. res.crash
        BY <2>2, <3>3 DEF AsMap
      <3> QED
        BY <1>1, <2>1, <2>2, <3>1, <3>4 DEF MapServed
    <2>6. CASE n > 0
      <3>1. \A i \in 1..n : Str(e[2 * i - 1]) = Name(q[i]) /\ Str(e[2 * i]) = h[q[i]]
        <4> TAKE i \in 1..n
        <4>1. /\ 2 * i - 1 \in 1..(2 * n) /\ 2 * i \in 1..(2 * n)
              /\ (2 * i - 1) % 2 = 1 /\ (2 * i) % 2 = 0
              /\ ((2 * i - 1) + 1) \div 2 = i /\ (2 * i) \div 2 = i
          BY OddAndEven
        <4>2. e[2 * i - 1] = Name(q[((2 * i - 1) + 1) \div 2])
          BY <1>7, <4>1
        <4>3. e[2 * i] = h[q[(2 * i) \div 2]]
          BY <1>7, <4>1
        <4>4. q[i] \in Fields /\ h[q[i]] \in Strings
          BY <1>4, <1>6
        <4>5. Str(Name(q[i])) = Name(q[i]) /\ Str(h[q[i]]) = h[q[i]]
          BY <4>4, NamesAreTexts, StringKinds DEF Str
        <4> QED
          BY <4>1, <4>2, <4>3, <4>5
      <3>2. PICK T : T = Taken(2 * n)
        OBVIOUS
      <3>3. /\ \A i \in T : \E j \in 1..n : i + 1 = 2 * j - 1 /\ i + 2 = 2 * j
            /\ \A j \in 1..n : \E i \in T : i + 1 = 2 * j - 1 /\ i + 2 = 2 * j
            /\ ~ReadsBehind(2 * n)
        BY <2>4, <2>6, <3>2, LoopFacts
      <3>4. PICK m : m = {<<Str(e[i + 1]), Str(e[i + 2])>> : i \in T}
        OBVIOUS
      <3>5. m = {<<Name(f), h[f]>> : f \in P}
        <4>1. \A i \in T : \E j \in 1..n : <<Str(e[i + 1]), Str(e[i + 2])>> = <<Name(q[j]), h[q[j]]>>
          BY <3>1, <3>3
        <4>2. \A j \in 1..n : \E i \in T : <<Str(e[i + 1]), Str(e[i + 2])>> = <<Name(q[j]), h[q[j]]>>
          BY <3>1, <3>3
        <4>3. PICK g : g = [j \in 1..n |-> <<Name(q[j]), h[q[j]]>>]
          OBVIOUS
        <4>4. PICK d : d = [i \in T |-> <<Str(e[i + 1]), Str(e[i + 2])>>]
          OBVIOUS
        <4>5. m = {d[i] : i \in T}
          BY <3>4, <4>4
        <4>6. (\A i \in T : \E j \in 1..n : d[i] = g[j]) /\ \A j \in 1..n : \E i \in T : d[i] = g[j]
          BY <4>1, <4>2, <4>3, <4>4
        <4>7. m = {g[j] : j \in 1..n}
          BY <4>5, <4>6
        <4>8. m = {<<Name(q[j]), h[q[j]]>> : j \in 1..n}
          BY <4>3, <4>7
        <4> QED
          BY <1>6, <4>8
      <3>6. Emplaced({}, e) = m
        BY <2>3, <3>2, <3>4 DEF Emplaced
      <3>7. PICK o : o = [Unmapped EXCEPT !.map = Emplaced(@, e)]
        OBVIOUS
      <3>8. o.map = m
        BY <3>6, <3>7, OutParameters
      <3>9. res = Result(REDIS_OK, o)
        <4>1. ~ReadsBehind(Len(s.reply.arr))
          BY <2>2, <2>3, <3>3
        <4> QED
          BY <2>2, <3>7, <4>1 DEF AsMap
      <3>10. res.crash = FALSE /\ res.out.map = m
        BY <3>8, <3>9 DEF Result
      <3>11. P # {}
        <4>1. 1 \in 1..n
          BY <2>6
        <4> QED
          BY <1>6, <4>1
      <3> QED
        BY <1>1, <1>2, <2>1, <2>2, <3>5, <3>10, <3>11 DEF MapServed
    <2> QED
      BY <2>5, <2>6
  <1> QED
    BY <1>8, <1>9, <1>10

LEMMA UpTo2Seq == ASSUME NEW S, NEW q \in UpTo2(S) PROVE q \in Seq(S)
  <1>1. CASE q = <<>>
    BY <1>1
  <1>2. CASE q \in {<<x>> : x \in S}
    BY <1>2
  <1>3. CASE q \in S \X S
    <2>1. PICK x \in S, y \in S : q = <<x, y>>
      BY <1>3
    <2> QED
      BY <2>1
  <1> QED
    BY <1>1, <1>2, <1>3 DEF UpTo2

LEMMA HashReadsSound ==
    ASSUME CallsInv, NEW k \in Keys,
           \/ HGetAll(k) \/ HLen(k) \/ HKeys(k) \/ HVals(k)
           \/ \E f \in Fields : HGet(k, f) \/ HExists(k, f)
           \/ \E fs \in UpTo2(Fields) : HMGet(k, fs)
    PROVE  Sound
  <1>1. StoreFormed
    BY DEF CallsInv, SyncInv
  <1>2. CASE HGetAll(k)
    <2>1. PICK s : s = HashServer("HGETALL", <<k>>)
      OBVIOUS
    <2>2. PICK res : res = AsMap(s.reply, Unmapped)
      OBVIOUS
    <2>3. MapServed(k, s, res)
      BY <1>1, <2>1, <2>2, HGetAllServed
    <2>4. Went(s, res) => s.store = store /\ HandsOut("HGetAll", <<k>>, store, res.out)
      BY <2>3 DEF MapServed, HandsOut, Went
    <2>5. Agrees("HGetAll", <<k>>, s, res)
      BY <2>4, ReadAgrees DEF Reads
    <2>6. SyncCall("HGetAll", <<k>>, s, res, Unmapped)
      BY <1>2, <2>1, <2>2 DEF HGetAll, Call
    <2>7. res.ret \in Codes /\ res.crash \in BOOLEAN
      BY <2>2, ResultKinds
    <2>8. Crashes("HGetAll", <<k>>, s, res)
      BY <2>3, <2>7 DEF MapServed, Crashes
    <2>9. DbFormed(s.store)
      BY <2>3 DEF MapServed
    <2> QED
      BY <2>5, <2>6, <2>7, <2>8, <2>9, CallSound
  <1>3. CASE HLen(k)
    <2>1. PICK s : s = HashServer("HLEN", <<k>>)
      OBVIOUS
    <2>2. /\ DbFormed(s.store)
          /\ \/ s.reply.kind = "error"
             \/ s.store = store /\ s.reply.int = Cardinality(Present(store[k]))
      <3>1. s = Refused \/ s = Answer(IntRep(Cardinality(Present(store[k]))))
        BY <2>1 DEF HashServer
      <3> QED
        BY <1>1, <3>1, AnswerFacts DEF IntRep, Reply
    <2>3. SyncCall("HLen", <<k>>, s, AsInteger(s.reply, Out), Out)
      BY <1>3, <2>1 DEF HLen, Call
    <2>4. AsInteger(s.reply, Out).ret \in Codes /\ AsInteger(s.reply, Out).crash = FALSE
      BY ResultKinds
    <2>5. AsInteger(s.reply, Out).ret = REDIS_OK /\ s.reply.kind # "error"
             => s.store = store /\ AsInteger(s.reply, Out).out.int = Cardinality(Present(store[k]))
      BY <2>2, Interpreted
    <2>6. Went(s, AsInteger(s.reply, Out)) => s.store = store /\ HandsOut("HLen", <<k>>, store, AsInteger(s.reply, Out).out)
      BY <2>5 DEF HandsOut, Went
    <2>7. Agrees("HLen", <<k>>, s, AsInteger(s.reply, Out))
      BY <2>6, ReadAgrees DEF Reads
    <2> QED
      BY <2>2, <2>3, <2>4, <2>7, SafeCallSound
  <1>4. CASE HKeys(k)
    <2>1. PICK s : s = HashServer("HKEYS", <<k>>)
      OBVIOUS
    <2>2. PICK res : res = AsArray(s.reply, Cleared)
      OBVIOUS
    <2>3. /\ DbFormed(s.store)
          /\ \/ s.reply.kind = "error"
             \/ s.store = store /\ ToSet(res.out.arr) = {Name(f) : f \in Present(store[k])}
      BY <1>1, <2>1, <2>2, HKeysServed
    <2>4. SyncCall("HKeys", <<k>>, s, res, Cleared)
      BY <1>4, <2>1, <2>2 DEF HKeys, Call
    <2>5. res.ret \in Codes /\ res.crash = FALSE
      BY <2>2, ResultKinds
    <2>6. Went(s, res) => s.store = store /\ HandsOut("HKeys", <<k>>, store, res.out)
      BY <2>3 DEF HandsOut, Went
    <2>7. Agrees("HKeys", <<k>>, s, res)
      BY <2>6, ReadAgrees DEF Reads
    <2> QED
      BY <2>3, <2>4, <2>5, <2>7, SafeCallSound
  <1>5. CASE HVals(k)
    <2>1. PICK s : s = HashServer("HVALS", <<k>>)
      OBVIOUS
    <2>2. PICK res : res = AsArray(s.reply, Out)
      OBVIOUS
    <2>3. /\ DbFormed(s.store)
          /\ \/ s.reply.kind = "error"
             \/ /\ s.store = store
                /\ Len(res.out.arr) = Len(Out.arr) + Cardinality(Present(store[k]))
                /\ ToSet(res.out.arr) = ToSet(Out.arr) \cup {store[k].hash[f] : f \in Present(store[k])}
      BY <1>1, <2>1, <2>2, HValsServed
    <2>4. SyncCall("HVals", <<k>>, s, res, Out)
      BY <1>5, <2>1, <2>2 DEF HVals, Call
    <2>5. res.ret \in Codes /\ res.crash = FALSE
      BY <2>2, ResultKinds
    <2>6. Went(s, res) => s.store = store /\ HandsOut("HVals", <<k>>, store, res.out)
      BY <2>3 DEF HandsOut, Went
    <2>7. Agrees("HVals", <<k>>, s, res)
      BY <2>6, ReadAgrees DEF Reads
    <2> QED
      BY <2>3, <2>4, <2>5, <2>7, SafeCallSound
  <1>6. ASSUME NEW f \in Fields, HGet(k, f) PROVE Sound
    <2>1. PICK s : s = HashServer("HGET", <<k, f>>)
      OBVIOUS
    <2>2. PICK res : res = AsField(s.reply, Out)
      OBVIOUS
    <2>3. /\ DbFormed(s.store)
          /\ \/ s.reply.kind \in {"error", "nil"}
             \/ s.reply.kind = "string" /\ s.store = store /\ s.reply.str = store[k].hash[f]
      BY <1>1, <2>1, HGetServed
    <2>4. SyncCall("HGet", <<k, f>>, s, res, Out)
      BY <1>6, <2>1, <2>2 DEF HGet, Call
    <2>5. res.ret \in Codes /\ res.crash = FALSE
      BY <2>2, ResultKinds
    <2>6. s.reply.kind # "error" /\ res.ret = REDIS_OK
             => s.store = store /\ res.out.str = IfEmpty(store[k].hash[f])
      BY <2>2, <2>3, Interpreted
    <2>7. Went(s, res) => s.store = store /\ HandsOut("HGet", <<k, f>>, store, res.out)
      BY <2>6 DEF HandsOut, Went
    <2>8. Agrees("HGet", <<k, f>>, s, res)
      BY <2>7, ReadAgrees DEF Reads
    <2> QED
      BY <2>3, <2>4, <2>5, <2>8, SafeCallSound
  <1>7. ASSUME NEW f \in Fields, HExists(k, f) PROVE Sound
    <2>1. PICK s : s = HashServer("HEXISTS", <<k, f>>)
      OBVIOUS
    <2>2. PICK res : res = AsExists(s.reply, Out)
      OBVIOUS
    <2>3. /\ DbFormed(s.store)
          /\ \/ s.reply.kind = "error"
             \/ s.store = store /\ s.reply.int = Bool(store[k].hash[f] # Nil)
      <3>1. s = Refused \/ s = Answer(IntRep(Bool(store[k].hash[f] # Nil)))
        BY <2>1 DEF HashServer
      <3> QED
        BY <1>1, <3>1, AnswerFacts DEF IntRep, Reply
    <2>4. SyncCall("HExists", <<k, f>>, s, res, Out)
      BY <1>7, <2>1, <2>2 DEF HExists, Call
    <2>5. res.ret \in Codes /\ res.crash = FALSE
      BY <2>2, ResultKinds
    <2>6. s.reply.kind # "error" /\ res.ret = REDIS_OK
             => s.store = store /\ res.out.flag = (store[k].hash[f] # Nil)
      BY <2>2, <2>3, Interpreted DEF Bool
    <2>7. Went(s, res) => s.store = store /\ HandsOut("HExists", <<k, f>>, store, res.out)
      BY <2>6 DEF HandsOut, Went
    <2>8. Agrees("HExists", <<k, f>>, s, res)
      BY <2>7, ReadAgrees DEF Reads
    <2> QED
      BY <2>3, <2>4, <2>5, <2>8, SafeCallSound
  <1>8. ASSUME NEW fs \in Seq(Fields), HMGet(k, fs) PROVE Sound
    <2>1. PICK s : s = HashServer("HMGET", <<k>> \o fs)
      OBVIOUS
    <2>2. PICK res : res = AsArray(s.reply, Cleared)
      OBVIOUS
    <2>3. /\ DbFormed(s.store)
          /\ \/ s.reply.kind = "error"
             \/ s.store = store /\ res.out.arr = [i \in DOMAIN fs |-> Str(store[k].hash[fs[i]])]
      BY <1>1, <2>1, <2>2, HMGetServed
    <2>4. SyncCall("HMGet", <<k, fs>>, s, res, Cleared)
      BY <1>8, <2>1, <2>2 DEF HMGet, Call
    <2>5. res.ret \in Codes /\ res.crash = FALSE
      BY <2>2, ResultKinds
    <2>6. Went(s, res) => s.store = store /\ HandsOut("HMGet", <<k, fs>>, store, res.out)
      BY <2>3 DEF HandsOut, Went
    <2>7. Agrees("HMGet", <<k, fs>>, s, res)
      BY <2>6, ReadAgrees DEF Reads
    <2> QED
      BY <2>3, <2>4, <2>5, <2>7, SafeCallSound
  <1> QED
    BY <1>2, <1>3, <1>4, <1>5, <1>6, <1>7, <1>8, UpTo2Seq

LEMMA HashWritesSound ==
    ASSUME CallsInv, NEW k \in Keys,
           \/ \E f \in Fields :
                \/ HDel(k, f)
                \/ \E v \in Values : HSet(k, f, v) \/ HSetNx(k, f, v)
                \/ \E n \in {-1, 1} : HIncrby(k, f, n)
           \/ \E fs \in UpTo2(Fields) : HDelAll(k, fs)
           \/ HMSet(k, <<>>)
           \/ \E v \in Values : HMSet(k, SetToSeq({<<f, v>> : f \in Fields}))
    PROVE  Sound
  <1>1. StoreFormed
    BY DEF CallsInv, SyncInv
  <1>2. ASSUME NEW f \in Fields, HDel(k, f) PROVE Sound
    <2>1. PICK s : s = HashServer("HDEL", <<k, f>>)
      OBVIOUS
    <2>2. PICK res : res = AsOne(s.reply, Out)
      OBVIOUS
    <2>3. /\ DbFormed(s.store)
          /\ \/ s.reply.kind = "error"
             \/ /\ s.store[k].hash = Without(store[k].hash, {f})
                /\ s.reply = IntRep(Cardinality({f} \cap Present(store[k])))
      <3>1. <<f>> \in Seq(Fields) /\ ToSet(<<f>>) = {f} /\ <<k, f>> = <<k>> \o <<f>>
        BY DEF ToSet
      <3>2. PICK fs : fs = <<f>>
        OBVIOUS
      <3>3. /\ DbFormed(s.store)
            /\ \/ s.reply.kind = "error"
               \/ /\ s.store[k].hash = Without(store[k].hash, ToSet(fs))
                  /\ s.reply = IntRep(Cardinality(ToSet(fs) \cap Present(store[k])))
        <4>1. fs \in Seq(Fields) /\ s = HashServer("HDEL", <<k>> \o fs)
          BY <2>1, <3>1, <3>2
        <4> QED
          BY ONLY <1>1, k \in Keys, <4>1, HDelServed
      <3> QED
        BY <3>1, <3>2, <3>3
    <2>4. s.reply.kind # "error" /\ res.ret = REDIS_OK => f \in Present(store[k])
      <3>1. SUFFICES ASSUME s.reply.kind # "error", res.ret = REDIS_OK, f \notin Present(store[k])
                     PROVE  FALSE
        OBVIOUS
      <3>2. {f} \cap Present(store[k]) = {}
        BY <3>1
      <3>3. s.reply = IntRep(0)
        BY <2>3, <3>1, <3>2, FS_EmptySet
      <3> QED
        BY <2>2, <3>1, <3>3 DEF AsOne, Result, OkIf, Integer, IntRep, Reply, REDIS_OK, REDIS_ERR_OTHER
    <2>5. Without(store[k].hash, {f}) = [store[k].hash EXCEPT ![f] = Nil]
      <3>1. store[k].hash \in Hashes
        BY <1>1, EntryFacts DEF Entries, Hashes
      <3> QED
        BY <3>1 DEF Without, Hashes
    <2>6. Went(s, res) => store[k].hash[f] # Nil /\ s.store[k].hash = [store[k].hash EXCEPT ![f] = Nil]
      BY <2>3, <2>4, <2>5 DEF Went, Present
    <2>7. SyncCall("HDel", <<k, f>>, s, res, Out)
      BY <1>2, <2>1, <2>2 DEF HDel, Call
    <2>8. res.ret \in Codes /\ res.crash = FALSE
      BY <2>2, ResultKinds
    <2>9. Went(s, res) => HasDone("HDel", <<k, f>>, store, s.store, res.out)
      BY <2>6 DEF HasDone
    <2>10. Agrees("HDel", <<k, f>>, s, res)
      BY <2>9, WriteAgrees DEF Reads
    <2> QED
      BY <2>3, <2>7, <2>8, <2>10, SafeCallSound
  <1>3. ASSUME NEW f \in Fields, NEW v \in Values, HSet(k, f, v) PROVE Sound
    <2>1. PICK s : s = HashServer("HSET", <<k, f, v>>)
      OBVIOUS
    <2>2. PICK res : res = AsDone(s.reply, Out)
      OBVIOUS
    <2>3. /\ DbFormed(s.store)
          /\ s.reply.kind = "error" \/ s.store[k].hash = [store[k].hash EXCEPT ![f] = v]
      BY <1>1, <2>1, HSetServed
    <2>4. SyncCall("HSet", <<k, f, v>>, s, res, Out)
      BY <1>3, <2>1, <2>2 DEF HSet, Call
    <2>5. res.ret \in Codes /\ res.crash = FALSE
      BY <2>2, ResultKinds
    <2>6. Went(s, res) => HasDone("HSet", <<k, f, v>>, store, s.store, res.out)
      BY <2>3 DEF HasDone, Went
    <2>7. Agrees("HSet", <<k, f, v>>, s, res)
      BY <2>6, WriteAgrees DEF Reads
    <2> QED
      BY <2>3, <2>4, <2>5, <2>7, SafeCallSound
  <1>4. ASSUME NEW f \in Fields, NEW v \in Values, HSetNx(k, f, v) PROVE Sound
    <2>1. PICK s : s = HashServer("HSETNX", <<k, f, v>>)
      OBVIOUS
    <2>2. PICK res : res = AsOne(s.reply, Out)
      OBVIOUS
    <2>3. /\ DbFormed(s.store)
          /\ \/ s.reply.kind = "error" \/ s.reply = IntRep(0)
             \/ store[k].hash[f] = Nil /\ s.store[k].hash = [store[k].hash EXCEPT ![f] = v]
      BY <1>1, <2>1, HSetServed
    <2>4. SyncCall("HSetNx", <<k, f, v>>, s, res, Out)
      BY <1>4, <2>1, <2>2 DEF HSetNx, Call
    <2>5. res.ret \in Codes /\ res.crash = FALSE
      BY <2>2, ResultKinds
    <2>6. s.reply = IntRep(0) => res.ret # REDIS_OK
      BY <2>2 DEF AsOne, Result, OkIf, Integer, IntRep, Reply, REDIS_OK, REDIS_ERR_OTHER
    <2>7. Went(s, res) => HasDone("HSetNx", <<k, f, v>>, store, s.store, res.out)
      BY <2>3, <2>6 DEF HasDone, Went
    <2>8. Agrees("HSetNx", <<k, f, v>>, s, res)
      BY <2>7, WriteAgrees DEF Reads
    <2> QED
      BY <2>3, <2>4, <2>5, <2>8, SafeCallSound
  <1>5. ASSUME NEW f \in Fields, NEW n \in Int, HIncrby(k, f, n) PROVE Sound
    <2>1. PICK s : s = HashServer("HINCRBY", <<k, f, n>>)
      OBVIOUS
    <2>2. PICK res : res = AsInteger(s.reply, Out)
      OBVIOUS
    <2>3. /\ DbFormed(s.store)
          /\ \/ s.reply.kind = "error"
             \/ /\ s.reply.kind = "integer" /\ s.reply.int = IntOf(store[k].hash[f]) + n
                /\ s.store[k].hash = [store[k].hash EXCEPT ![f] = Num(s.reply.int)]
      BY <1>1, <2>1, HIncrServed
    <2>4. SyncCall("HIncrby", <<k, f, n>>, s, res, Out)
      BY <1>5, <2>1, <2>2 DEF HIncrby, Call
    <2>5. res.ret \in Codes /\ res.crash = FALSE
      BY <2>2, ResultKinds
    <2>6. s.reply.kind # "error" /\ res.ret = REDIS_OK =>
             /\ res.out.int = IntOf(store[k].hash[f]) + n
             /\ s.store[k].hash = [store[k].hash EXCEPT ![f] = Num(res.out.int)]
      BY <2>2, <2>3, Interpreted
    <2>7. Went(s, res) => HasDone("HIncrby", <<k, f, n>>, store, s.store, res.out)
      BY <2>6 DEF HasDone, Went
    <2>8. Agrees("HIncrby", <<k, f, n>>, s, res)
      BY <2>7, WriteAgrees DEF Reads
    <2> QED
      BY <2>3, <2>4, <2>5, <2>8, SafeCallSound
  <1>6. ASSUME NEW fs \in Seq(Fields), HDelAll(k, fs) PROVE Sound
    <2>1. PICK s : s = HashServer("HDEL", <<k>> \o fs)
      OBVIOUS
    <2>2. PICK res : res = AsSome(s.reply, Out)
      OBVIOUS
    <2>3. PICK G, h, P : G = ToSet(fs) /\ h = store[k].hash /\ P = Present(store[k])
      OBVIOUS
    <2>4. /\ DbFormed(s.store)
          /\ \/ s.reply.kind = "error"
             \/ s.store[k].hash = Without(h, G) /\ s.reply = IntRep(Cardinality(G \cap P))
      BY <1>1, <2>1, <2>3, HDelServed
    <2>5. s.reply.kind # "error" /\ res.ret = REDIS_OK => G \cap P # {}
      <3>1. SUFFICES ASSUME s.reply.kind # "error", res.ret = REDIS_OK, G \cap P = {}
                     PROVE  FALSE
        OBVIOUS
      <3>2. s.reply = IntRep(0)
        BY <2>4, <3>1, FS_EmptySet
      <3> QED
        BY <2>2, <3>1, <3>2 DEF AsSome, Result, OkIf, Integer, IntRep, Reply, REDIS_OK, REDIS_ERR_OTHER
    <2>6. G \cap P # {} => Without(h, G) # h
      BY <2>3 DEF Without, Present
    <2>7. Went(s, res) => s.store[k].hash = Without(store[k].hash, ToSet(fs)) /\ s.store[k].hash # store[k].hash
      BY <2>3, <2>4, <2>5, <2>6 DEF Went
    <2>8. Went(s, res) => HasDone("HDelAll", <<k, fs>>, store, s.store, res.out)
      BY <2>7 DEF HasDone, Without
    <2>9. Agrees("HDelAll", <<k, fs>>, s, res)
      BY <2>8, WriteAgrees DEF Reads
    <2>10. SyncCall("HDelAll", <<k, fs>>, s, res, Out) /\ res.ret \in Codes /\ res.crash = FALSE
      BY <1>6, <2>1, <2>2, ResultKinds DEF HDelAll, Call
    <2> QED
      BY <2>4, <2>9, <2>10, SafeCallSound
  <1>7. ASSUME NEW ps \in Seq(Fields \X Strings), Pairing(ToSet(ps)), HMSet(k, ps) PROVE Sound
    <2>1. PICK s : s = HashServer("HMSET", <<k>> \o ps)
      OBVIOUS
    <2>2. PICK res : res = AsStatus(s.reply, Out)
      OBVIOUS
    <2>3. /\ DbFormed(s.store)
          /\ \/ s.reply.kind = "error"
             \/ /\ \A p \in ToSet(ps) : s.store[k].hash[p[1]] = p[2]
                /\ \A f \in Fields : \/ s.store[k].hash[f] = store[k].hash[f]
                                      \/ \E p \in ToSet(ps) : p[1] = f
      BY <1>1, <1>7, <2>1, HMSetServed
    <2>4. SyncCall("HMSet", <<k, ps>>, s, res, Out)
      BY <1>7, <2>1, <2>2 DEF HMSet, Call
    <2>5. res.ret \in Codes /\ res.crash = FALSE
      BY <2>2, ResultKinds
    <2>6. Went(s, res) => HasDone("HMSet", <<k, ps>>, store, s.store, res.out)
      BY <2>3 DEF HasDone, Went
    <2>7. Agrees("HMSet", <<k, ps>>, s, res)
      BY <2>6, WriteAgrees DEF Reads
    <2> QED
      BY <2>3, <2>4, <2>5, <2>7, SafeCallSound
  <1>8. CASE HMSet(k, <<>>)
    <2>1. <<>> \in Seq(Fields \X Strings) /\ ToSet(<<>>) = {}
      BY DEF ToSet
    <2>2. Pairing(ToSet(<<>>))
      BY <2>1 DEF Pairing
    <2> QED
      BY <1>7, <1>8, <2>1, <2>2
  <1>9. ASSUME NEW v \in Values, HMSet(k, SetToSeq({<<f, v>> : f \in Fields})) PROVE Sound
    <2>1. PICK S : S = {<<f, v>> : f \in Fields}
      OBVIOUS
    <2>2. S \in SUBSET (Fields \X Strings) /\ Pairing(S)
      BY <2>1, StringKinds DEF Pairing
    <2>3. IsFiniteSet(S)
      <3>1. PICK g : g = [f \in Fields |-> <<f, v>>]
        OBVIOUS
      <3>2. g \in Surjection(Fields, S)
        BY <2>1, <3>1 DEF Surjection
      <3> QED
        BY <3>2, FieldsAssumption, FS_Surjection
    <2>4. PICK ps : ps = SetToSeq(S)
      OBVIOUS
    <2>5. ps \in Seq(S) /\ ToSet(ps) = S
      BY <2>3, <2>4, OrderFacts
    <2>6. ps \in Seq(Fields \X Strings)
      BY <2>2, <2>5
    <2>7. HMSet(k, ps)
      BY <1>9, <2>1, <2>4
    <2>8. Pairing(ToSet(ps))
      BY <2>2, <2>5
    <2> QED
      BY <1>7, <2>6, <2>7, <2>8
  <1>10. -1 \in Int /\ 1 \in Int
    OBVIOUS
  <1> QED
    BY <1>2, <1>3, <1>4, <1>5, <1>6, <1>8, <1>9, <1>10, UpTo2Seq

LEMMA HashCallsSound ==
    ASSUME CallsInv, NEW k \in Keys, HashCalls(k)
    PROVE  Sound
  <1>1. \/ \/ HGetAll(k) \/ HLen(k) \/ HKeys(k) \/ HVals(k)
           \/ \E f \in Fields : HGet(k, f) \/ HExists(k, f)
           \/ \E fs \in UpTo2(Fields) : HMGet(k, fs)
        \/ \/ \E f \in Fields :
                \/ HDel(k, f)
                \/ \E v \in Values : HSet(k, f, v) \/ HSetNx(k, f, v)
                \/ \E n \in {-1, 1} : HIncrby(k, f, n)
           \/ \E fs \in UpTo2(Fields) : HDelAll(k, fs)
           \/ HMSet(k, <<>>)
           \/ \E v \in Values : HMSet(k, SetToSeq({<<f, v>> : f \in Fields}))
    BY Zenon DEF HashCalls
  <1> QED
    BY <1>1, HashReadsSound, HashWritesSound

-----------------------------------------------------------------------------
(* The commands on lists. *)

LEMMA ReverseFacts ==
    ASSUME NEW X, NEW s \in Seq(X), NEW r, r = Reverse(s)
    PROVE  /\ r \in Seq(X) /\ Len(r) = Len(s)
           /\ \A i \in 1..Len(s) : r[i] = s[(Len(s) - i) + 1]
  <1>1. \A i \in 1..Len(s) : (Len(s) - i) + 1 \in 1..Len(s)
    OBVIOUS
  <1> QED
    BY <1>1 DEF Reverse

LEMMA PushFacts ==
    ASSUME NEW X, NEW s \in Seq(X), NEW t \in Seq(X)
    PROVE  s \o t \in Seq(X) /\ Len(s \o t) = Len(s) + Len(t)
  OBVIOUS

(* The entry u as the list q, or with the list q. *)
AsList(u, q) == [u EXCEPT !.type = "list", !.list = q]
WithList(u, q) == [u EXCEPT !.list = q]

LEMMA ListEntry ==
    ASSUME NEW u, Raw(u), u.type \in {"none", "list"}, NEW q \in Seq(Values), Len(q) <= MaxLen
    PROVE  /\ Raw(WithList(u, q)) /\ WithList(u, q).type = u.type /\ WithList(u, q).list = q
           /\ Raw(AsList(u, q)) /\ AsList(u, q).type = "list" /\ AsList(u, q).list = q
  <1>1. u \in Entries /\ u.str = Empty
    BY DEF Raw
  <1>2. /\ [u EXCEPT !.type = "list", !.list = q] \in Entries
        /\ [u EXCEPT !.type = "list", !.list = q].type = "list"
        /\ [u EXCEPT !.type = "list", !.list = q].list = q
        /\ [u EXCEPT !.type = "list", !.list = q].str = Empty
    BY <1>1 DEF Entries
  <1>3. /\ [u EXCEPT !.list = q] \in Entries
        /\ [u EXCEPT !.list = q].type = u.type
        /\ [u EXCEPT !.list = q].list = q
        /\ [u EXCEPT !.list = q].str = Empty
    BY <1>1 DEF Entries
  <1>4. Raw([u EXCEPT !.list = q])
    BY <1>1, <1>3 DEF Raw
  <1>5. Raw([u EXCEPT !.type = "list", !.list = q])
    BY <1>1, <1>2 DEF Raw
  <1> QED
    BY <1>2, <1>3, <1>4, <1>5 DEF WithList, AsList

LEMMA SliceFacts ==
    ASSUME NEW q \in Seq(Values), NEW i \in {0, 1}, NEW j \in {-1, 0}
    PROVE  /\ Slice(q, i, j) \in Seq(Values) /\ Len(Slice(q, i, j)) <= Len(q)
  <1>1. PICK e : e = 1 + IF j < 0 THEN Len(q) + j ELSE Min({j, Len(q) - 1})
    OBVIOUS
  <1>2. e \in 0..Len(q)
    <2>1. CASE j = -1
      BY <1>1, <2>1
    <2>2. CASE j = 0
      <3>1. PICK m : m = CHOOSE x \in {j, Len(q) - 1} : \A y \in {j, Len(q) - 1} : x =< y
        OBVIOUS
      <3>2. \E x \in {j, Len(q) - 1} : \A y \in {j, Len(q) - 1} : x =< y
        BY <2>2
      <3>3. m \in {j, Len(q) - 1} /\ \A y \in {j, Len(q) - 1} : m =< y
        BY <3>1, <3>2
      <3>4. e = 1 + m
        BY <1>1, <2>2, <3>1 DEF Min
      <3> QED
        BY <2>2, <3>3, <3>4
    <2> QED
      BY <2>1, <2>2
  <1>3. Slice(q, i, j) = SubSeq(q, i + 1, e)
    BY <1>1 DEF Slice
  <1>4. SubSeq(q, i + 1, e) \in Seq(Values) /\ Len(SubSeq(q, i + 1, e)) <= Len(q)
    BY <1>2
  <1> QED
    BY <1>3, <1>4

LEMMA RangeServed ==
    ASSUME StoreFormed, NEW k \in Keys, NEW i \in {0, 1}, NEW j \in {-1, 0},
           NEW s, s = ListServer("LRANGE", <<k, i, j>>)
    PROVE  /\ DbFormed(s.store)
           /\ \/ s.reply.kind = "error"
              \/ /\ s.store = store
                 /\ AsArray(s.reply, Cleared).out.arr = Slice(store[k].list, i, j)
  <1>1. PICK q : q = store[k].list
    OBVIOUS
  <1>2. q \in Seq(Values)
    BY <1>1, EntryFacts DEF Entries
  <1>3. PICK e : e = Slice(q, i, j)
    OBVIOUS
  <1>4. e \in Seq(Values)
    BY <1>2, <1>3, SliceFacts
  <1>5. s = Refused \/ s = Answer(ArrayRep(e))
    BY <1>1, <1>3 DEF ListServer
  <1>6. PICK n \in Nat : n = Len(e) /\ DOMAIN e = 1..n
    BY <1>4
  <1>7. \A m \in 1..n : e[m] \in Values /\ Str(e[m]) = e[m]
    <2>1. \A m \in 1..n : e[m] \in Values
      BY <1>4, <1>6
    <2>2. \A x \in Values : Str(x) = x
      BY StringKinds DEF Str
    <2> QED
      BY <2>1, <2>2
  <1>8. Array(e, n, Values)
    BY <1>6, <1>7 DEF Array
  <1>9. AsArray(ArrayRep(e), Cleared).out.arr = Texts(e, n)
    BY <1>8, ArrayResult
  <1>10. Texts(e, n) = e
    BY <1>4, <1>6, <1>7 DEF Texts
  <1> QED
    BY <1>1, <1>3, <1>5, <1>9, <1>10, AnswerFacts

LEMMA TrimServed ==
    ASSUME StoreFormed, NEW k \in Keys, NEW i \in {0, 1}, NEW j \in {-1, 0},
           NEW s, s = ListServer("LTRIM", <<k, i, j>>)
    PROVE  /\ DbFormed(s.store)
           /\ s.reply.kind = "error" \/ s.store[k].list = Slice(store[k].list, i, j)
  <1>1. PICK u : u = store[k]
    OBVIOUS
  <1>2. /\ Raw(u) /\ u.list \in Seq(Values) /\ Len(u.list) \in Nat /\ Len(u.list) <= MaxLen
        /\ u.type = "none" => u = Missing
    BY <1>1, EntryFacts DEF Entries, Raw
  <1>3. PICK e : e = Slice(u.list, i, j)
    OBVIOUS
  <1>4. e \in Seq(Values) /\ Len(e) \in Nat /\ Len(e) <= Len(u.list) /\ Len(e) <= MaxLen
    BY <1>2, <1>3, SliceFacts, BoundsAssumption
  <1>5. \/ s = Refused
        \/ u.type \in {"none", "list"} /\ s = On(k, WithList(u, e), StatusRep)
    BY <1>1, <1>3 DEF ListServer, WithList
  <1>6. CASE s = Refused
    BY <1>6, AnswerFacts
  <1>7. CASE u.type \in {"none", "list"} /\ s = On(k, WithList(u, e), StatusRep)
    <2>1. PICK w : w = WithList(u, e)
      OBVIOUS
    <2>2. Raw(w) /\ w.type = u.type /\ w.list = e
      BY <1>2, <1>4, <1>7, <2>1, ListEntry
    <2>3. DbFormed(s.store) /\ s.store[k] = Kept(w)
      BY <1>7, <2>1, <2>2, OnFacts
    <2>4. Kept(w).list = e
      <3>1. CASE u.type = "list"
        BY <2>2, <3>1, KeptFacts
      <3>2. CASE u.type = "none"
        <4>1. Kept(w) = Missing /\ u.list = Missing.list
          BY <1>2, <2>2, <3>2, KeptFacts
        <4>2. Missing.list = <<>>
          BY DEF Missing
        <4>3. e = <<>>
          BY <1>4, <4>1, <4>2
        <4> QED
          BY <4>1, <4>2, <4>3
      <3> QED
        BY <1>7, <3>1, <3>2
    <2> QED
      BY <1>1, <1>3, <2>3, <2>4
  <1> QED
    BY <1>5, <1>6, <1>7

(* What a push makes of the entry u: the entry w, and the length n it answers. *)
PushedList(verb, vs, q) == IF verb \in {"LPUSH", "LPUSHX"} THEN Reverse(vs) \o q ELSE q \o vs
Pushed(verb, vs, u, w, n) ==
    IF verb \in {"LPUSHX", "RPUSHX"} /\ u.type = "none" THEN w = u /\ n = 0
    ELSE w.type = "list" /\ w.list = PushedList(verb, vs, u.list) /\ n = Len(PushedList(verb, vs, u.list))

LEMMA PushServed ==
    ASSUME StoreFormed, NEW k \in Keys, NEW verb \in {"LPUSH", "LPUSHX", "RPUSH", "RPUSHX"},
           NEW vs \in Seq(Values), Len(store[k].list) + Len(vs) <= MaxLen,
           NEW s, s = ListServer(verb, PushArgs(k, vs))
    PROVE  /\ DbFormed(s.store)
           /\ s.reply.kind = "error" \/ Pushed(verb, vs, store[k], s.store[k], s.reply.int)
  <1>1. PICK u : u = store[k]
    OBVIOUS
  <1>2. Raw(u) /\ u.list \in Seq(Values) /\ Len(u.list) + Len(vs) <= MaxLen
    BY <1>1, EntryFacts DEF Entries
  <1>3. PICK a : a = <<k>> \o vs
    OBVIOUS
  <1>4. a[1] = k /\ Tail(a) = vs /\ Len(a) = Len(vs) + 1 /\ s = ListServer(verb, a)
    BY <1>3, KeyAndMore DEF PushArgs
  <1>5. PICK q : q = PushedList(verb, vs, u.list)
    OBVIOUS
  <1>6. PICK nothing : nothing = (verb \in {"LPUSHX", "RPUSHX"} /\ u.type = "none")
    OBVIOUS
  <1>7. \/ s = Refused
        \/ nothing /\ s = Answer(IntRep(0))
        \/ /\ ~nothing /\ u.type \in {"none", "list"} /\ ~(Len(a) < 2)
           /\ s = On(k, AsList(u, q), IntRep(Len(q)))
    <2>1. CASE verb \in {"LPUSH", "LPUSHX"}
      <3>1. q = Reverse(Tail(a)) \o store[a[1]].list
        BY <1>1, <1>4, <1>5, <2>1 DEF PushedList
      <3>2. \/ s = Refused
            \/ verb = "LPUSHX" /\ store[a[1]].type = "none" /\ s = Answer(IntRep(0))
            \/ /\ ~(verb = "LPUSHX" /\ store[a[1]].type = "none")
               /\ store[a[1]].type \in {"none", "list"} /\ ~(Len(a) < 2)
               /\ s = On(a[1], AsList(store[a[1]], q), IntRep(Len(q)))
        BY <1>4, <2>1, <3>1 DEF ListServer, AsList
      <3> QED
        BY <1>1, <1>4, <1>6, <2>1, <3>2
    <2>2. CASE verb \in {"RPUSH", "RPUSHX"}
      <3>1. q = store[a[1]].list \o Tail(a)
        BY <1>1, <1>4, <1>5, <2>2 DEF PushedList
      <3>2. \/ s = Refused
            \/ verb = "RPUSHX" /\ store[a[1]].type = "none" /\ s = Answer(IntRep(0))
            \/ /\ ~(verb = "RPUSHX" /\ store[a[1]].type = "none")
               /\ store[a[1]].type \in {"none", "list"} /\ ~(Len(a) < 2)
               /\ s = On(a[1], AsList(store[a[1]], q), IntRep(Len(q)))
        BY <1>4, <2>2, <3>1 DEF ListServer, AsList
      <3> QED
        BY <1>1, <1>4, <1>6, <2>2, <3>2
    <2> QED
      BY <2>1, <2>2
  <1>8. q \in Seq(Values) /\ Len(q) = Len(u.list) + Len(vs)
    <2>1. PICK r : r = Reverse(vs)
      OBVIOUS
    <2>2. r \in Seq(Values) /\ Len(r) = Len(vs)
      BY <2>1, ReverseFacts
    <2>3. PICK l : l = u.list
      OBVIOUS
    <2>4. l \in Seq(Values) /\ Len(vs) \in Nat /\ Len(l) \in Nat
      BY <1>2, <2>3
    <2>5. r \o l \in Seq(Values) /\ Len(r \o l) = Len(vs) + Len(l)
      BY <2>2, <2>4, PushFacts
    <2>6. l \o vs \in Seq(Values) /\ Len(l \o vs) = Len(l) + Len(vs)
      BY <2>4, PushFacts
    <2>7. q = r \o l \/ q = l \o vs
      BY <1>5, <2>1, <2>3 DEF PushedList
    <2>8. q \in Seq(Values) /\ Len(q) = Len(l) + Len(vs)
      <3>1. Len(vs) + Len(l) = Len(l) + Len(vs)
        BY <2>4
      <3>2. CASE q = r \o l
        BY ONLY <2>5, <3>1, <3>2
      <3>3. CASE q = l \o vs
        BY ONLY <2>6, <3>3
      <3> QED
        BY <2>7, <3>2, <3>3
    <2> QED
      BY <2>3, <2>8
  <1>9. CASE s = Refused
    BY <1>9, AnswerFacts
  <1>10. CASE nothing /\ s = Answer(IntRep(0))
    <2>1. DbFormed(s.store) /\ s.store = store /\ s.reply = IntRep(0)
      BY <1>10, AnswerFacts
    <2>2. s.reply.int = 0
      BY <2>1 DEF IntRep, Reply
    <2> QED
      BY <1>1, <1>6, <1>10, <2>1, <2>2 DEF Pushed
  <1>11. CASE /\ ~nothing /\ u.type \in {"none", "list"} /\ ~(Len(a) < 2)
              /\ s = On(k, AsList(u, q), IntRep(Len(q)))
    <2>1. PICK w : w = AsList(u, q)
      OBVIOUS
    <2>2. q # <<>> /\ Len(q) <= MaxLen
      <3>1. Len(vs) \in Nat /\ Len(u.list) \in Nat /\ Len(vs) > 0
        BY <1>2, <1>4, <1>11
      <3> QED
        BY <1>2, <1>8, <3>1
    <2>3. Raw(w) /\ w.type = "list" /\ w.list = q
      BY <1>2, <1>8, <1>11, <2>1, <2>2, ListEntry
    <2>4. DbFormed(s.store) /\ s.store[k] = Kept(w) /\ s.reply = IntRep(Len(q))
      BY <1>11, <2>1, <2>3, OnFacts
    <2>5. Kept(w) = w
      BY <2>2, <2>3, KeptFacts
    <2>6. s.reply.int = Len(q)
      BY <2>4 DEF IntRep, Reply
    <2> QED
      BY <1>1, <1>5, <1>6, <1>11, <2>3, <2>4, <2>5, <2>6 DEF Pushed
  <1> QED
    BY <1>7, <1>9, <1>10, <1>11

LEMMA ListCallsSound ==
    ASSUME CallsInv, NEW k \in Keys, ListCalls(k)
    PROVE  Sound
  <1>1. StoreFormed
    BY DEF CallsInv, SyncInv
  <1>2. ASSUME NEW i \in {0, 1}, NEW j \in {-1, 0}, GetListByRange(k, i, j) PROVE Sound
    <2>1. PICK s : s = ListServer("LRANGE", <<k, i, j>>)
      OBVIOUS
    <2>2. PICK res : res = AsArray(s.reply, Cleared)
      OBVIOUS
    <2>3. /\ DbFormed(s.store)
          /\ s.reply.kind = "error" \/ (s.store = store /\ res.out.arr = Slice(store[k].list, i, j))
      BY <1>1, <2>1, <2>2, RangeServed
    <2>4. SyncCall("GetListByRange", <<k, i, j>>, s, res, Cleared)
      BY <1>2, <2>1, <2>2 DEF GetListByRange, Call
    <2>5. res.ret \in Codes /\ res.crash = FALSE
      BY <2>2, ResultKinds
    <2>6. Went(s, res) => s.store = store /\ HandsOut("GetListByRange", <<k, i, j>>, store, res.out)
      BY <2>3 DEF HandsOut, Went
    <2>7. Agrees("GetListByRange", <<k, i, j>>, s, res)
      BY <2>6, ReadAgrees DEF Reads
    <2> QED
      BY <2>3, <2>4, <2>5, <2>7, SafeCallSound
  <1>3. ASSUME NEW i \in {0, 1}, NEW j \in {-1, 0}, TrimList(k, i, j) PROVE Sound
    <2>1. PICK s : s = ListServer("LTRIM", <<k, i, j>>)
      OBVIOUS
    <2>2. PICK res : res = AsStatus(s.reply, Out)
      OBVIOUS
    <2>3. /\ DbFormed(s.store)
          /\ s.reply.kind = "error" \/ s.store[k].list = Slice(store[k].list, i, j)
      BY <1>1, <2>1, TrimServed
    <2>4. Went(s, res) => HasDone("TrimList", <<k, i, j>>, store, s.store, res.out)
      BY <2>3 DEF HasDone, Went
    <2>5. Agrees("TrimList", <<k, i, j>>, s, res)
      BY <2>4, WriteAgrees DEF Reads
    <2>6. SyncCall("TrimList", <<k, i, j>>, s, res, Out) /\ res.ret \in Codes /\ res.crash = FALSE
      BY <1>3, <2>1, <2>2, ResultKinds DEF TrimList, Call
    <2> QED
      BY <2>3, <2>5, <2>6, SafeCallSound
  <1>4. ASSUME NEW op, NEW verb \in {"LPUSH", "LPUSHX", "RPUSH", "RPUSHX"},
               NEW vs \in Seq(Values), Len(store[k].list) + Len(vs) <= MaxLen,
               \/ op = "LPush" /\ verb = "LPUSH"
               \/ op \in {"LPushX", "RPushXAll"} /\ verb = "LPUSHX"
               \/ op = "RPush" /\ verb = "RPUSH"
               \/ op = "RPushX" /\ verb = "RPUSHX",
               SyncCall(op, <<k, vs>>, ListServer(verb, PushArgs(k, vs)),
                        AsInteger(ListServer(verb, PushArgs(k, vs)).reply, Out), Out)
        PROVE  Sound
    <2>1. PICK s : s = ListServer(verb, PushArgs(k, vs))
      OBVIOUS
    <2>2. PICK res : res = AsInteger(s.reply, Out)
      OBVIOUS
    <2>3. /\ DbFormed(s.store)
          /\ s.reply.kind = "error" \/ Pushed(verb, vs, store[k], s.store[k], s.reply.int)
      BY <1>1, <1>4, <2>1, PushServed
    <2>4. Went(s, res) => Pushed(verb, vs, store[k], s.store[k], res.out.int)
      BY <2>2, <2>3, Interpreted DEF Went
    <2>5. Went(s, res) => HasDone(op, <<k, vs>>, store, s.store, res.out)
      <3>1. CASE op = "LPush" /\ verb = "LPUSH"
        BY <2>4, <3>1 DEF HasDone, Pushed, PushedList
      <3>2. CASE op = "LPushX" /\ verb = "LPUSHX"
        BY <2>4, <3>2 DEF HasDone, Pushed, PushedList
      <3>3. CASE op = "RPushXAll" /\ verb = "LPUSHX"
        BY <2>4, <3>3 DEF HasDone, Pushed, PushedList
      <3>4. CASE op = "RPush" /\ verb = "RPUSH"
        BY <2>4, <3>4 DEF HasDone, Pushed, PushedList
      <3>5. CASE op = "RPushX" /\ verb = "RPUSHX"
        BY <2>4, <3>5 DEF HasDone, Pushed, PushedList
      <3> QED
        BY <1>4, <3>1, <3>2, <3>3, <3>4, <3>5
    <2>6. op \notin Reads /\ op # "HGetAll"
      BY <1>4 DEF Reads
    <2>7. Agrees(op, <<k, vs>>, s, res)
      BY <2>5, <2>6, WriteAgrees
    <2>8. SyncCall(op, <<k, vs>>, s, res, Out) /\ res.ret \in Codes /\ res.crash = FALSE
      BY <1>4, <2>1, <2>2, ResultKinds
    <2> QED
      BY <2>3, <2>6, <2>7, <2>8, SafeCallSound
  <1>5. ASSUME NEW vs \in Seq(Values), Len(store[k].list) + Len(vs) <= MaxLen, LPush(k, vs)
        PROVE  Sound
    BY <1>4, <1>5 DEF LPush, Call
  <1>6. ASSUME NEW vs \in Seq(Values), Len(store[k].list) + Len(vs) <= MaxLen, LPushX(k, vs)
        PROVE  Sound
    BY <1>4, <1>6 DEF LPushX, Call
  <1>7. ASSUME NEW vs \in Seq(Values), Len(store[k].list) + Len(vs) <= MaxLen, RPush(k, vs)
        PROVE  Sound
    BY <1>4, <1>7 DEF RPush, Call
  <1>8. ASSUME NEW vs \in Seq(Values), Len(store[k].list) + Len(vs) <= MaxLen, RPushXAll(k, vs)
        PROVE  Sound
    BY <1>4, <1>8 DEF RPushXAll, Call
  <1>9. ASSUME NEW v \in Values, Len(store[k].list) < MaxLen, RPushX(k, v)
        PROVE  Sound
    <2>1. <<v>> \in Seq(Values) /\ Len(<<v>>) = 1
      OBVIOUS
    <2>2. Len(store[k].list) \in Nat
      BY <1>1, EntryFacts DEF Entries
    <2>3. Len(store[k].list) + Len(<<v>>) <= MaxLen
      BY <1>9, <2>1, <2>2, BoundsAssumption
    <2>4. SyncCall("RPushX", <<k, <<v>>>>, ListServer("RPUSHX", PushArgs(k, <<v>>)),
                   AsInteger(ListServer("RPUSHX", PushArgs(k, <<v>>)).reply, Out), Out)
      BY <1>9 DEF RPushX, Call
    <2> QED
      BY <1>4, <2>1, <2>3, <2>4
  <1>10. ASSUME NEW vs \in UpTo2(Values), Len(store[k].list) + Len(vs) <= MaxLen,
               LPush(k, vs) \/ LPushX(k, vs) \/ RPush(k, vs) \/ RPushXAll(k, vs)
        PROVE  Sound
    <2>1. vs \in Seq(Values)
      BY UpTo2Seq
    <2> QED
      BY <1>5, <1>6, <1>7, <1>8, <1>10, <2>1
  <1> QED
    BY <1>2, <1>3, <1>9, <1>10 DEF ListCalls

-----------------------------------------------------------------------------
(* The commands on sets. *)

(* The entry u as the set S, or with the set S. *)
AsSet(u, S) == [u EXCEPT !.type = "set", !.set = S]
WithSet(u, S) == [u EXCEPT !.set = S]

LEMMA SetEntry ==
    ASSUME NEW u, Raw(u), u.type \in {"none", "set"}, NEW S \in SUBSET Values
    PROVE  /\ Raw(WithSet(u, S)) /\ WithSet(u, S).type = u.type /\ WithSet(u, S).set = S
           /\ Raw(AsSet(u, S)) /\ AsSet(u, S).type = "set" /\ AsSet(u, S).set = S
  <1>1. u \in Entries /\ u.str = Empty /\ Len(u.list) <= MaxLen
    BY DEF Raw
  <1>2. /\ [u EXCEPT !.type = "set", !.set = S] \in Entries
        /\ [u EXCEPT !.type = "set", !.set = S].type = "set"
        /\ [u EXCEPT !.type = "set", !.set = S].set = S
        /\ [u EXCEPT !.type = "set", !.set = S].str = Empty
        /\ [u EXCEPT !.type = "set", !.set = S].list = u.list
    BY <1>1 DEF Entries
  <1>3. /\ [u EXCEPT !.set = S] \in Entries
        /\ [u EXCEPT !.set = S].type = u.type
        /\ [u EXCEPT !.set = S].set = S
        /\ [u EXCEPT !.set = S].str = Empty
        /\ [u EXCEPT !.set = S].list = u.list
    BY <1>1 DEF Entries
  <1>4. Raw([u EXCEPT !.set = S])
    BY <1>1, <1>3 DEF Raw
  <1>5. Raw([u EXCEPT !.type = "set", !.set = S])
    BY <1>1, <1>2 DEF Raw
  <1> QED
    BY <1>2, <1>3, <1>4, <1>5 DEF WithSet, AsSet

LEMMA SAddServed ==
    ASSUME StoreFormed, NEW k \in Keys, NEW ms \in Seq(Values),
           NEW s, s = SetServer("SADD", <<k>> \o ms)
    PROVE  /\ DbFormed(s.store)
           /\ \/ s.reply.kind = "error"
              \/ /\ s.store[k].set = store[k].set \cup ToSet(ms)
                 /\ s.reply = IntRep(Cardinality(ToSet(ms) \ store[k].set))
  <1>1. PICK u : u = store[k]
    OBVIOUS
  <1>2. Raw(u) /\ u.set \in SUBSET Values
    BY <1>1, EntryFacts DEF Entries
  <1>3. PICK a : a = <<k>> \o ms
    OBVIOUS
  <1>4. a[1] = k /\ Tail(a) = ms /\ s = SetServer("SADD", a)
    BY <1>3, KeyAndMore
  <1>5. PICK S : S = u.set \cup ToSet(ms)
    OBVIOUS
  <1>6. S \in SUBSET Values /\ ToSet(ms) \subseteq S
    <2>1. ToSet(ms) \in SUBSET Values
      BY DEF ToSet
    <2> QED
      BY <1>2, <1>5, <2>1
  <1>7. \/ s = Refused
        \/ /\ u.type \in {"none", "set"}
           /\ s = On(k, AsSet(u, S), IntRep(Cardinality(ToSet(ms) \ u.set)))
    <2>1. S = store[a[1]].set \cup ToSet(Tail(a))
      BY <1>1, <1>4, <1>5
    <2>2. \/ s = Refused
          \/ /\ store[a[1]].type \in {"none", "set"}
             /\ s = On(a[1], AsSet(store[a[1]], S), IntRep(Cardinality(ToSet(Tail(a)) \ store[a[1]].set)))
      BY <1>4, <2>1 DEF SetServer, AsSet
    <2> QED
      BY <1>1, <1>4, <2>2
  <1>8. CASE s = Refused
    BY <1>8, AnswerFacts
  <1>9. CASE /\ u.type \in {"none", "set"}
             /\ s = On(k, AsSet(u, S), IntRep(Cardinality(ToSet(ms) \ u.set)))
    <2>1. PICK r : r = IntRep(Cardinality(ToSet(ms) \ u.set)) /\ s = On(k, AsSet(u, S), r)
      BY <1>9
    <2>2. PICK w : w = AsSet(u, S)
      OBVIOUS
    <2>3. Raw(w) /\ w.type = "set" /\ w.set = S
      BY <1>2, <1>6, <1>9, <2>2, SetEntry
    <2>4. DbFormed(s.store) /\ s.store[k] = Kept(w) /\ s.reply = r
      BY <2>1, <2>2, <2>3, OnFacts
    <2>5. Kept(w).set = S
      BY <2>3, KeptFacts
    <2> QED
      BY <1>1, <1>5, <2>1, <2>4, <2>5
  <1> QED
    BY <1>7, <1>8, <1>9

LEMMA SRemServed ==
    ASSUME StoreFormed, NEW k \in Keys, NEW ms \in Seq(Values),
           NEW s, s = SetServer("SREM", <<k>> \o ms)
    PROVE  /\ DbFormed(s.store)
           /\ \/ s.reply.kind = "error"
              \/ /\ s.store[k].set = store[k].set \ ToSet(ms)
                 /\ s.reply = IntRep(Cardinality(ToSet(ms) \cap store[k].set))
  <1>1. PICK u : u = store[k]
    OBVIOUS
  <1>2. Raw(u) /\ u.set \in SUBSET Values
    BY <1>1, EntryFacts DEF Entries
  <1>3. PICK a : a = <<k>> \o ms
    OBVIOUS
  <1>4. a[1] = k /\ Tail(a) = ms /\ s = SetServer("SREM", a)
    BY <1>3, KeyAndMore
  <1>5. PICK S : S = u.set \ ToSet(ms)
    OBVIOUS
  <1>6. S \in SUBSET Values /\ ToSet(ms) \cap S = {}
    BY <1>2, <1>5
  <1>7. \/ s = Refused
        \/ /\ u.type \in {"none", "set"}
           /\ s = On(k, WithSet(u, S), IntRep(Cardinality(ToSet(ms) \cap u.set)))
    <2>1. S = store[a[1]].set \ ToSet(Tail(a))
      BY <1>1, <1>4, <1>5
    <2>2. \/ s = Refused
          \/ /\ store[a[1]].type \in {"none", "set"}
             /\ s = On(a[1], WithSet(store[a[1]], S), IntRep(Cardinality(ToSet(Tail(a)) \cap store[a[1]].set)))
      BY <1>4, <2>1 DEF SetServer, WithSet
    <2> QED
      BY <1>1, <1>4, <2>2
  <1>8. CASE s = Refused
    BY <1>8, AnswerFacts
  <1>9. CASE /\ u.type \in {"none", "set"}
             /\ s = On(k, WithSet(u, S), IntRep(Cardinality(ToSet(ms) \cap u.set)))
    <2>1. PICK r : r = IntRep(Cardinality(ToSet(ms) \cap u.set)) /\ s = On(k, WithSet(u, S), r)
      BY <1>9
    <2>2. PICK w : w = WithSet(u, S)
      OBVIOUS
    <2>3. Raw(w) /\ w.type = u.type /\ w.set = S
      BY <1>2, <1>6, <1>9, <2>2, SetEntry
    <2>4. DbFormed(s.store) /\ s.store[k] = Kept(w) /\ s.reply = r
      BY <2>1, <2>2, <2>3, OnFacts
    <2>5. Kept(w).set = S
      <3>1. CASE u.type = "set"
        BY <2>3, <3>1, KeptFacts
      <3>2. CASE u.type = "none"
        <4>1. Kept(w) = Missing /\ u = Missing
          BY <1>1, <2>3, <3>2, KeptFacts, EntryFacts
        <4>2. Missing.set = {}
          BY DEF Missing
        <4> QED
          BY <1>5, <4>1, <4>2
      <3> QED
        BY <1>9, <3>1, <3>2
    <2> QED
      BY <1>1, <1>5, <2>1, <2>4, <2>5
  <1> QED
    BY <1>7, <1>8, <1>9

LEMMA SMembersServed ==
    ASSUME StoreFormed, NEW k \in Keys, NEW s, s = SetServer("SMEMBERS", <<k>>)
    PROVE  /\ DbFormed(s.store)
           /\ \/ s.reply.kind = "error"
              \/ s.store = store /\ ToSet(AsArray(s.reply, Cleared).out.arr) = store[k].set
  <1>1. PICK S : S = store[k].set
    OBVIOUS
  <1>2. S \in SUBSET Values /\ IsFiniteSet(S)
    <2>1. S \in SUBSET Values
      BY <1>1, EntryFacts DEF Entries
    <2> QED
      BY <2>1, StringKinds, FS_Subset
  <1>3. PICK e : e = SetToSeq(S)
    OBVIOUS
  <1>4. e \in Seq(S) /\ ToSet(e) = S
    BY <1>2, <1>3, OrderFacts
  <1>5. s = Refused \/ s = Answer(ArrayRep(e))
    BY <1>1, <1>3 DEF SetServer
  <1>6. PICK n \in Nat : n = Len(e) /\ DOMAIN e = 1..n
    BY <1>4
  <1>7. \A m \in 1..n : e[m] \in Values /\ Str(e[m]) = e[m]
    <2>1. \A m \in 1..n : e[m] \in Values
      BY <1>2, <1>4, <1>6
    <2>2. \A x \in Values : Str(x) = x
      BY StringKinds DEF Str
    <2> QED
      BY <2>1, <2>2
  <1>8. Array(e, n, Values)
    BY <1>6, <1>7 DEF Array
  <1>9. AsArray(ArrayRep(e), Cleared).out.arr = Texts(e, n)
    BY <1>8, ArrayResult
  <1>10. Texts(e, n) = e
    BY <1>4, <1>6, <1>7 DEF Texts
  <1> QED
    BY <1>1, <1>4, <1>5, <1>9, <1>10, AnswerFacts

LEMMA SetCallsSound ==
    ASSUME CallsInv, NEW k \in Keys, SetCalls(k)
    PROVE  Sound
  <1>1. StoreFormed
    BY DEF CallsInv, SyncInv
  <1>2. CASE SMembers(k)
    <2>1. PICK s : s = SetServer("SMEMBERS", <<k>>)
      OBVIOUS
    <2>2. PICK res : res = AsArray(s.reply, Cleared)
      OBVIOUS
    <2>3. /\ DbFormed(s.store)
          /\ s.reply.kind = "error" \/ (s.store = store /\ ToSet(res.out.arr) = store[k].set)
      BY <1>1, <2>1, <2>2, SMembersServed
    <2>4. SyncCall("SMembers", <<k>>, s, res, Cleared)
      BY <1>2, <2>1, <2>2 DEF SMembers, Call
    <2>5. res.ret \in Codes /\ res.crash = FALSE
      BY <2>2, ResultKinds
    <2>6. Went(s, res) => s.store = store /\ HandsOut("SMembers", <<k>>, store, res.out)
      BY <2>3 DEF HandsOut, Went
    <2>7. Agrees("SMembers", <<k>>, s, res)
      BY <2>6, ReadAgrees DEF Reads
    <2> QED
      BY <2>3, <2>4, <2>5, <2>7, SafeCallSound
  <1>3. ASSUME NEW ms \in Seq(Values), SAdd(k, ms) PROVE Sound
    <2>1. PICK s : s = SetServer("SADD", <<k>> \o ms)
      OBVIOUS
    <2>2. PICK res : res = AsSome(s.reply, Out)
      OBVIOUS
    <2>3. PICK M, S : M = ToSet(ms) /\ S = store[k].set
      OBVIOUS
    <2>4. /\ DbFormed(s.store)
           /\ \/ s.reply.kind = "error"
              \/ s.store[k].set = S \cup M /\ s.reply = IntRep(Cardinality(M \ S))
      BY <1>1, <2>1, <2>3, SAddServed
    <2>5. s.reply.kind # "error" /\ res.ret = REDIS_OK => M \ S # {}
      <3>1. SUFFICES ASSUME s.reply.kind # "error", res.ret = REDIS_OK, M \ S = {}
                     PROVE  FALSE
        OBVIOUS
      <3>2. s.reply = IntRep(0)
        BY <2>4, <3>1, FS_EmptySet
      <3> QED
        BY <2>2, <3>1, <3>2 DEF AsSome, Result, OkIf, Integer, IntRep, Reply, REDIS_OK, REDIS_ERR_OTHER
    <2>6. Went(s, res) => s.store[k].set = S \cup M /\ s.store[k].set # S
      BY <2>4, <2>5 DEF Went
    <2>7. SyncCall("SAdd", <<k, ms>>, s, res, Out)
      BY <1>3, <2>1, <2>2 DEF SAdd, Call
    <2>8. res.ret \in Codes /\ res.crash = FALSE
      BY <2>2, ResultKinds
    <2>9. Went(s, res) => HasDone("SAdd", <<k, ms>>, store, s.store, res.out)
      BY <2>3, <2>6 DEF HasDone
    <2>10. Agrees("SAdd", <<k, ms>>, s, res)
      BY <2>9, WriteAgrees DEF Reads
    <2> QED
      BY <2>4, <2>7, <2>8, <2>10, SafeCallSound
  <1>4. ASSUME NEW ms \in Seq(Values), SRemAll(k, ms) PROVE Sound
    <2>1. PICK s : s = SetServer("SREM", <<k>> \o ms)
      OBVIOUS
    <2>2. PICK res : res = AsDone(s.reply, Out)
      OBVIOUS
    <2>3. DbFormed(s.store) /\ (s.reply.kind = "error" \/ s.store[k].set = store[k].set \ ToSet(ms))
      BY <1>1, <2>1, SRemServed
    <2>4. SyncCall("SRemAll", <<k, ms>>, s, res, Out)
      BY <1>4, <2>1, <2>2 DEF SRemAll, Call
    <2>5. res.ret \in Codes /\ res.crash = FALSE
      BY <2>2, ResultKinds
    <2>6. Went(s, res) => HasDone("SRemAll", <<k, ms>>, store, s.store, res.out)
      BY <2>3 DEF HasDone, Went
    <2>7. Agrees("SRemAll", <<k, ms>>, s, res)
      BY <2>6, WriteAgrees DEF Reads
    <2> QED
      BY <2>3, <2>4, <2>5, <2>7, SafeCallSound
  <1>5. ASSUME NEW m \in Values, SRem(k, m) PROVE Sound
    <2>1. PICK s : s = SetServer("SREM", <<k, m>>)
      OBVIOUS
    <2>2. PICK res : res = AsRemoved(s.reply, Out)
      OBVIOUS
    <2>3. PICK ms, S : ms = <<m>> /\ S = store[k].set
      OBVIOUS
    <2>4. /\ DbFormed(s.store)
           /\ \/ s.reply.kind = "error"
              \/ s.store[k].set = S \ ToSet(ms) /\ s.reply = IntRep(Cardinality(ToSet(ms) \cap S))
      <3>1. <<k, m>> = <<k>> \o <<m>> /\ <<m>> \in Seq(Values)
        OBVIOUS
      <3>2. ms \in Seq(Values) /\ s = SetServer("SREM", <<k>> \o ms)
        <4>1. s = SetServer("SREM", <<k>> \o <<m>>)
          BY ONLY <2>1, <3>1
        <4> QED
          BY ONLY <2>3, <3>1, <4>1
      <3> QED
        BY <1>1, <2>3, <3>2, SRemServed
    <2>5. s.reply.kind # "error" /\ res.ret = REDIS_OK => ToSet(ms) \cap S # {}
      <3>1. SUFFICES ASSUME s.reply.kind # "error", res.ret = REDIS_OK, ToSet(ms) \cap S = {}
                     PROVE  FALSE
        OBVIOUS
      <3>2. s.reply = IntRep(0)
        BY <2>4, <3>1, FS_EmptySet
      <3> QED
        BY <2>2, <3>1, <3>2 DEF AsRemoved, Result, IntRep, Reply, REDIS_OK, REDIS_RESULT_NODATA
    <2>6. Went(s, res) => s.store[k].set = S \ ToSet(ms) /\ s.store[k].set # S
      BY <2>4, <2>5 DEF Went
    <2>7. SyncCall("SRem", <<k, <<m>>>>, s, res, Out)
      BY <1>5, <2>1, <2>2 DEF SRem, Call
    <2>8. res.ret \in Codes /\ res.crash = FALSE
      BY <2>2, ResultKinds
    <2>9. Went(s, res) => HasDone("SRem", <<k, <<m>>>>, store, s.store, res.out)
      BY <2>3, <2>6 DEF HasDone
    <2>10. Agrees("SRem", <<k, <<m>>>>, s, res)
      BY <2>9, WriteAgrees DEF Reads
    <2> QED
      BY <2>4, <2>7, <2>8, <2>10, SafeCallSound
  <1> QED
    BY <1>2, <1>3, <1>4, <1>5, UpTo2Seq DEF SetCalls

-----------------------------------------------------------------------------
(* The inductive invariant holds at the start and is kept. *)

LEMMA StartsSound == ASSUME Init PROVE CallsInv
  <1>1. /\ store = [k \in Keys |-> Missing] /\ linked = TRUE /\ crashed = FALSE
        /\ last = [op |-> "none", args |-> <<>>, reply |-> Lost, ret |-> REDIS_OK, out |-> Out]
    BY DEF Init
  <1>2. last.reply.kind = "lost" /\ last.ret = REDIS_OK /\ Shaped
    BY <1>1 DEF Lost, Reply, Shaped
  <1>3. DbFormed(store)
    BY <1>1, MissingFormed DEF DbFormed
  <1>4. StoreFormed
    BY <1>3 DEF StoreFormed, DbFormed
  <1>5. TypeOK
    BY <1>1, <1>2, <1>3, FormedIsTyped DEF TypeOK
  <1>6. ReadsAgree /\ CrashExactlyOnEmptyMap
    BY <1>1, <1>2 DEF ReadsAgree, Answered, CrashExactlyOnEmptyMap
  <1> QED
    BY <1>2, <1>4, <1>5, <1>6 DEF CallsInv, SyncInv

LEMMA ExpireSound ==
    ASSUME CallsInv, NEW k \in Keys, Expire(k)
    PROVE  Sound
  <1>1. /\ store' = [store EXCEPT ![k] = Missing] /\ last' = [last EXCEPT !.op = "expired"]
        /\ linked' = linked /\ crashed' = FALSE
    BY DEF Expire, CallsInv, SyncInv, TypeOK
  <1>2. PICK op, args, reply, ret, out :
           last = [op |-> op, args |-> args, reply |-> reply, ret |-> ret, out |-> out]
    BY DEF CallsInv, Shaped
  <1>3. last' = [op |-> "expired", args |-> args, reply |-> reply, ret |-> ret, out |-> out]
    BY <1>1, <1>2
  <1>4. Shaped' /\ last'.op = "expired" /\ last'.ret = last.ret
    BY <1>2, <1>3 DEF Shaped
  <1>5. StoreFormed
    BY DEF CallsInv, SyncInv
  <1>6. DbFormed(store')
    <2>1. store' \in [Keys -> Entries]
      BY <1>1, <1>5, MissingFormed DEF StoreFormed
    <2>2. \A j \in Keys : store'[j] = IF j = k THEN Missing ELSE store[j]
      BY <1>1, <1>5 DEF StoreFormed
    <2> QED
      BY <1>5, <2>1, <2>2, MissingFormed DEF StoreFormed, DbFormed
  <1>7. StoreFormed'
    BY <1>6 DEF StoreFormed, DbFormed
  <1>8. TypeOK'
    <2>1. last.ret \in Codes /\ linked \in BOOLEAN
      BY DEF CallsInv, SyncInv, TypeOK, Codes
    <2> QED
      BY <1>1, <1>4, <1>6, <2>1, FormedIsTyped DEF TypeOK, Codes
  <1>9. ReadsAgree' /\ CrashExactlyOnEmptyMap' /\ CallDone
    BY <1>1, <1>4 DEF ReadsAgree, CrashExactlyOnEmptyMap, HandsOut, CallDone
  <1> QED
    BY <1>4, <1>7, <1>8, <1>9 DEF Sound, CallsInv, SyncInv

LEMMA StepsSound ==
    ASSUME CallsInv, Next
    PROVE  Sound
  <1>1. CASE \E k \in Keys : KeyCalls(k) \/ HashCalls(k) \/ ListCalls(k) \/ SetCalls(k)
    BY <1>1, KeyCallsSound, HashCallsSound, ListCallsSound, SetCallsSound
  <1>2. CASE \E k \in Keys : Expire(k)
    BY <1>2, ExpireSound
  <1> QED
    BY <1>1, <1>2 DEF Next

LEMMA StutterSound ==
    ASSUME CallsInv, UNCHANGED vars
    PROVE  CallsInv' /\ UNCHANGED <<store, last>>
  <1>1. store' = store /\ crashed' = crashed /\ last' = last /\ linked' = linked
    BY DEF vars
  <1>2. TypeOK' /\ StoreFormed' /\ Shaped'
    BY <1>1 DEF CallsInv, SyncInv, TypeOK, StoreFormed, Shaped
  <1>3. ReadsAgree' /\ CrashExactlyOnEmptyMap'
    BY <1>1 DEF CallsInv, SyncInv, ReadsAgree, Answered, CrashExactlyOnEmptyMap
  <1> QED
    BY <1>1, <1>2, <1>3 DEF CallsInv, SyncInv

LEMMA CallsSound == Spec => []CallsInv
  <1>1. Init => CallsInv
    BY StartsSound
  <1>2. CallsInv /\ [Next]_vars => CallsInv'
    BY StepsSound, StutterSound DEF Sound
  <1> QED
    BY <1>1, <1>2, PTL DEF Spec

(***************************************************************************)
(* Every call returns one of the codes callers tell apart, and the server  *)
(* is never asked to keep a list beyond the bound or an unknown value.     *)
(***************************************************************************)
THEOREM SyncTypeCorrect == Spec => []TypeOK
  <1>1. CallsInv => TypeOK
    BY DEF CallsInv, SyncInv
  <1> QED
    BY <1>1, CallsSound, PTL

(***************************************************************************)
(* Whatever calls came before, on keys of whatever type, with keys expiring*)
(* and the link failing in between: a read that returns REDIS_OK on an     *)
(* answer hands out what the server stores.                                *)
(***************************************************************************)
THEOREM ReadsMatchStore == Spec => []ReadsAgree
  <1>1. CallsInv => ReadsAgree
    BY DEF CallsInv, SyncInv
  <1> QED
    BY <1>1, CallsSound, PTL

(***************************************************************************)
(* A write that returns REDIS_OK on an answer has changed its key as its   *)
(* name says, from whatever the key held before, and told its caller so;   *)
(* a read has changed no key.                                              *)
(***************************************************************************)
THEOREM WritesMatchStore == Spec => WritesAgree
  <1>1. CallsInv /\ [Next]_vars => [CallDone]_<<store, last>>
    BY StepsSound, StutterSound DEF Sound
  <1> QED
    BY <1>1, CallsSound, PTL DEF Spec, WritesAgree

(***************************************************************************)
(* For any word size_t has and any number of fields: ParseStringMap's loop *)
(* runs behind the reply for the empty hash, and stays within it for every *)
(* other; no other call reads behind a reply.                              *)
(***************************************************************************)
THEOREM CrashesExactlyOnEmptyMap == Spec => []CrashExactlyOnEmptyMap
  <1>1. CallsInv => CrashExactlyOnEmptyMap
    BY DEF CallsInv, SyncInv
  <1> QED
    BY <1>1, CallsSound, PTL
=============================================================================
