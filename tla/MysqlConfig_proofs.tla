------------------------- MODULE MysqlConfig_proofs --------------------------
(***************************************************************************)
(* Theorems about LoadConfigFile, for configurations of any size.          *)
(***************************************************************************)
EXTENDS MysqlConfig, TLAPS

(* A configuration has the parts it is read for. *)
LEMMA ConfigFacts ==
    ASSUME NEW c \in Configs
    PROVE  /\ c.threadCount \in (-1)..MaxNum /\ c.connectionNum \in (-1)..MaxNum
           /\ c.default \in Names
           /\ c.connections \in Seq(Names) /\ Len(c.connections) \in 0..MaxElements
  <1>1. /\ c.threadCount \in (-1)..MaxNum /\ c.connectionNum \in (-1)..MaxNum
        /\ c.default \in Names /\ c.connections \in SeqOf(Names, MaxElements)
    BY DEF Configs
  <1>2. PICK m \in 0..MaxElements : c.connections \in [1..m -> Names]
    BY <1>1 DEF SeqOf
  <1>3. c.connections \in Seq(Names) /\ Len(c.connections) = m
    BY <1>2, BoundsAssumption
  <1> QED
    BY <1>1, <1>3

(* A name's connections: one per thread at most, and one for the main thread. *)
LEMMA PerNameFacts ==
    ASSUME config \in Configs
    PROVE  /\ PerName \in 0..(MaxNum + 1)
           /\ config.connectionNum # 0 /\ config.threadCount > 0
                => PerName - 1 \in 1..config.threadCount
  <1>1. config.threadCount \in (-1)..MaxNum /\ config.connectionNum \in (-1)..MaxNum
    BY ConfigFacts
  <1> QED
    BY <1>1, BoundsAssumption DEF PerName, ConnectionNum

LEMMA ConfigInit == Init => ConfigInv
  <1> SUFFICES ASSUME Init PROVE ConfigInv
    OBVIOUS
  <1>1. TypeOK
    BY BoundsAssumption DEF Init, TypeOK
  <1>2. Opening /\ OthersComplete /\ DefaultFound
    BY DEF Init, Opening, OthersComplete, DefaultFound
  <1> QED
    BY <1>1, <1>2 DEF ConfigInv

LEMMA ConfigStep ==
    ASSUME ConfigInv, [Next]_vars
    PROVE  ConfigInv'
  <1> DEFINE words == {"start", "element", "open", "default", "loaded", "false"}
  <1>t. /\ pc \in words /\ config \in Configs /\ at \in 1..(MaxElements + 1)
        /\ i \in 0..(MaxNum + 1) /\ connctionMap \in [Names -> (-1)..(MaxNum + 1)]
        /\ asyncConnectionNum \in (-1)..MaxNum /\ mainConnection \in Names \cup {None}
    BY DEF ConfigInv, TypeOK
  <1>p. PerName \in 0..(MaxNum + 1) /\ MaxNum \in Nat /\ MaxElements \in Nat
    BY <1>t, PerNameFacts, BoundsAssumption
  <1>c. /\ config.connections \in Seq(Names) /\ Len(config.connections) \in 0..MaxElements
        /\ config.default \in Names
    BY <1>t, ConfigFacts
  <1>n. at <= Len(config.connections) => Name \in Names
    BY <1>t, <1>c DEF Name
  <1>i. Opening /\ OthersComplete /\ DefaultFound
    BY DEF ConfigInv
  <1>1. CASE ReadConfig
    <2>1. /\ UNCHANGED <<config, at, i, connctionMap, asyncConnectionNum, mainConnection>>
          /\ pc = "start" /\ pc' \in {"element", "false"}
      BY <1>1 DEF ReadConfig
    <2>2. PerName' = PerName /\ Name' = Name
      BY <2>1 DEF PerName, Name
    <2>3. TypeOK'
      BY <1>t, <2>1 DEF TypeOK
    <2> QED
      BY <1>i, <2>1, <2>2, <2>3 DEF ConfigInv, Opening, OthersComplete, DefaultFound
  <1>2. CASE NextElement
    <2>1. /\ UNCHANGED <<config, at, asyncConnectionNum, mainConnection>>
          /\ pc = "element"
      BY <1>2 DEF NextElement
    <2>2. PerName' = PerName /\ Name' = Name
      BY <2>1 DEF PerName, Name
    <2>3. CASE pc' \in {"default", "false"} /\ UNCHANGED <<i, connctionMap>>
      <3>1. TypeOK'
        BY <1>t, <2>1, <2>3 DEF TypeOK
      <3> QED
        BY <1>i, <2>1, <2>2, <2>3, <3>1 DEF ConfigInv, Opening, OthersComplete, DefaultFound
    <2>4. CASE /\ at <= Len(config.connections) /\ ~Duplicate(Name)
               /\ connctionMap' = [connctionMap EXCEPT ![Name] = IF @ = -1 THEN 0 ELSE @]
               /\ i' = 0 /\ pc' = "open"
      <3>1. Name \in Names /\ connctionMap[Name] = -1
        BY <1>n, <2>4 DEF Duplicate
      <3>2. connctionMap' = [connctionMap EXCEPT ![Name] = 0]
        BY <2>4, <3>1
      <3>3. connctionMap'[Name] = 0 /\ \A n \in Names \ {Name} : connctionMap'[n] = connctionMap[n]
        BY <1>t, <3>1, <3>2
      <3>4. connctionMap' \in [Names -> (-1)..(MaxNum + 1)] /\ i' \in 0..(MaxNum + 1)
        <4>1. 0 \in (-1)..(MaxNum + 1) /\ 0 \in 0..(MaxNum + 1)
          BY <1>p
        <4> QED
          BY <1>t, <2>4, <3>2, <4>1
      <3>5. TypeOK'
        BY <1>t, <2>1, <2>4, <3>4 DEF TypeOK
      <3>6. Opening'
        BY <1>p, <2>1, <2>2, <2>4, <3>3 DEF Opening
      <3>7. OthersComplete' /\ DefaultFound'
        BY <1>i, <2>1, <2>2, <2>4, <3>3 DEF OthersComplete, DefaultFound
      <3> QED
        BY <3>5, <3>6, <3>7 DEF ConfigInv
    <2> QED
      BY <1>2, <2>3, <2>4 DEF NextElement
  <1>3. CASE OpenConnection
    <2>1. /\ UNCHANGED <<config, at, asyncConnectionNum, mainConnection>>
          /\ pc = "open" /\ i < PerName
      BY <1>3 DEF OpenConnection
    <2>2. PerName' = PerName /\ Name' = Name
      BY <2>1 DEF PerName, Name
    <2>3. CASE pc' = "false" /\ UNCHANGED <<i, connctionMap>>
      <3>1. TypeOK'
        BY <1>t, <2>1, <2>3 DEF TypeOK
      <3> QED
        BY <2>3, <3>1 DEF ConfigInv, Opening, OthersComplete, DefaultFound
    <2>4. CASE /\ connctionMap' = [connctionMap EXCEPT ![Name] = @ + 1]
               /\ i' = i + 1 /\ UNCHANGED pc
      <3>1. at <= Len(config.connections) /\ Name \in Names /\ connctionMap[Name] = i
        BY <1>i, <1>n, <2>1 DEF Opening
      <3>2. /\ connctionMap'[Name] = i + 1
            /\ \A n \in Names \ {Name} : connctionMap'[n] = connctionMap[n]
        BY <1>t, <2>4, <3>1
      <3>3. i + 1 \in 0..(MaxNum + 1) /\ i + 1 <= PerName
        BY <1>t, <1>p, <2>1
      <3>4. connctionMap' \in [Names -> (-1)..(MaxNum + 1)]
        <4>1. connctionMap' = [connctionMap EXCEPT ![Name] = i + 1]
          BY <2>4, <3>1
        <4>2. i + 1 \in (-1)..(MaxNum + 1)
          BY <3>3
        <4> QED
          BY <1>t, <4>1, <4>2
      <3>5. TypeOK'
        BY <1>t, <2>1, <2>4, <3>3, <3>4 DEF TypeOK
      <3>6. Opening'
        BY <2>1, <2>2, <2>4, <3>1, <3>2, <3>3 DEF Opening
      <3>7. OthersComplete' /\ DefaultFound'
        BY <1>i, <2>1, <2>2, <2>4, <3>2 DEF OthersComplete, DefaultFound
      <3> QED
        BY <3>5, <3>6, <3>7 DEF ConfigInv
    <2> QED
      BY <1>3, <2>3, <2>4 DEF OpenConnection
  <1>4. CASE ElementDone
    <2>1. /\ UNCHANGED <<config, i, connctionMap, mainConnection>>
          /\ pc = "open" /\ pc' = "element" /\ i >= PerName
          /\ asyncConnectionNum' = PerName - 1 /\ at' = at + 1
      BY <1>4 DEF ElementDone
    <2>2. PerName' = PerName
      BY <2>1 DEF PerName
    <2>3. connctionMap[Name] = PerName /\ at <= Len(config.connections)
      BY <1>t, <1>i, <1>p, <2>1 DEF Opening
    <2>4. TypeOK'
      <3>1. at' \in 1..(MaxElements + 1) /\ asyncConnectionNum' \in (-1)..MaxNum
        BY <1>t, <1>c, <1>p, <2>1, <2>3
      <3> QED
        BY <1>t, <2>1, <3>1 DEF TypeOK
    <2>5. OthersComplete'
      BY <1>i, <2>1, <2>2, <2>3 DEF OthersComplete
    <2> QED
      BY <2>1, <2>4, <2>5 DEF ConfigInv, Opening, DefaultFound
  <1>5. CASE FindDefault
    <2>1. /\ UNCHANGED <<config, at, i, connctionMap, asyncConnectionNum>>
          /\ pc = "default"
          /\ \/ /\ connctionMap[config.default] # -1
                /\ mainConnection' = config.default /\ pc' = "loaded"
             \/ pc' = "false" /\ UNCHANGED mainConnection
      BY <1>5 DEF FindDefault
    <2>2. PerName' = PerName
      BY <2>1 DEF PerName
    <2>3. TypeOK'
      BY <1>t, <1>c, <2>1 DEF TypeOK
    <2>4. Opening' /\ OthersComplete'
      BY <1>i, <2>1, <2>2 DEF Opening, OthersComplete
    <2>5. DefaultFound'
      BY <1>c, <2>1, NamesAssumption DEF DefaultFound
    <2> QED
      BY <2>3, <2>4, <2>5 DEF ConfigInv
  <1>6. CASE UNCHANGED vars
    <2>1. PerName' = PerName /\ Name' = Name
      BY <1>6 DEF vars, PerName, Name
    <2>2. TypeOK'
      BY <1>t, <1>6 DEF TypeOK, vars
    <2> QED
      BY <1>i, <1>6, <2>1, <2>2 DEF ConfigInv, Opening, OthersComplete, DefaultFound, vars
  <1> QED
    BY <1>1, <1>2, <1>3, <1>4, <1>5, <1>6 DEF Next

(* No counter of LoadConfigFile leaves its range. *)
THEOREM ConfigTypeCorrect == Spec => []TypeOK
  <1>1. ConfigInv => TypeOK
    BY DEF ConfigInv
  <1> QED
    BY ConfigInit, ConfigStep, <1>1, PTL DEF Spec

(***************************************************************************)
(* After LoadConfigFile returned true GetDBConnection's index is in range  *)
(* for every configured name, for configurations of any size.              *)
(***************************************************************************)
THEOREM ConnectionsMatch == Spec => []IndexInRange
  <1>1. ConfigInv => IndexInRange
    <2> SUFFICES ASSUME ConfigInv, pc = "loaded" PROVE IndexInRange
      BY DEF IndexInRange
    <2>1. config \in Configs
      BY DEF ConfigInv, TypeOK
    <2>2. PerName \in 0..(MaxNum + 1)
      BY <2>1, PerNameFacts
    <2>3. ASSUME NEW n \in Names, connctionMap[n] # -1
          PROVE  connctionMap[n] = asyncConnectionNum + 1
      <3>1. connctionMap[n] = PerName /\ asyncConnectionNum = PerName - 1
        BY <2>3 DEF ConfigInv, OthersComplete
      <3> QED
        BY <2>2, <3>1, BoundsAssumption
    <2> QED
      BY <2>3 DEF ConfigInv, DefaultFound, IndexInRange
  <1> QED
    BY ConfigInit, ConfigStep, <1>1, PTL DEF Spec

(***************************************************************************)
(* GetConnectionThreadIdx has a divisor between 1 and the thread count for *)
(* every configuration that asks for connections and has threads: this is  *)
(* what module MysqlMgr assumes of AsyncConnectionNum.                     *)
(***************************************************************************)
THEOREM DivisorInRange == Spec => []DivisorUnlessZero
  <1>1. ConfigInv => DivisorUnlessZero
    <2> SUFFICES ASSUME ConfigInv, pc = "loaded", config.connectionNum # 0, config.threadCount > 0
                 PROVE  asyncConnectionNum \in 1..config.threadCount
      BY DEF DivisorUnlessZero
    <2>1. config \in Configs /\ config.default \in Names
      BY ConfigFacts DEF ConfigInv, TypeOK
    <2>2. asyncConnectionNum = PerName - 1
      BY <2>1 DEF ConfigInv, OthersComplete, DefaultFound
    <2> QED
      BY <2>1, <2>2, PerNameFacts
  <1> QED
    BY ConfigInit, ConfigStep, <1>1, PTL DEF Spec
=============================================================================
