------------------------- MODULE DBConnection_proofs -------------------------
(***************************************************************************)
(* Theorems about DBConnection and MysqlResult, for any time-out, any      *)
(* number of calls and outages, and result sets of any size.               *)
(***************************************************************************)
EXTENDS DBConnection, SequenceTheorems, WellFoundedInduction, TLAPS

(* The least-number principle, in the form the induction over rows needs. *)
LEMMA LeastNumber ==
    ASSUME NEW T \in SUBSET Nat, T # {}
    PROVE  \E m \in T : \A k \in T : m <= k
  <1> DEFINE R == {p \in Nat \X Nat : p[1] < p[2]}
  <1>1. IsWellFoundedOn(R, Nat)
    BY NatLessThanWellFounded DEF OpToRel
  <1>2. PICK m \in T : \A k \in T : ~(<<k, m>> \in R)
    BY <1>1, WFMin
  <1>3. ASSUME NEW k \in T PROVE m <= k
    <2>1. <<k, m>> \in Nat \X Nat /\ ~(<<k, m>> \in R)
      BY <1>2
    <2>2. ~(k < m)
      BY <2>1
    <2> QED
      BY <2>2
  <1> QED
    BY <1>3

-----------------------------------------------------------------------------
(***************************************************************************)
(* MysqlResult::Init, for a set of any number of rows: what the loop has   *)
(* built after n rows is their sequence and the lengths of the n-th.  This *)
(* closed form solves the loop's equation, and by induction it is the only *)
(* solution.                                                               *)
(***************************************************************************)
LoopState(s, n) ==
    [rows |-> SubSeq(s, 1, n),
     array |-> IF n = 0 THEN [f \in Fields |-> 0] ELSE FetchLengths(s[n])]

LEMMA LoopTurn ==
    ASSUME NEW s \in Seq(Rows), NEW n \in 1..Len(s)
    PROVE  EmplaceRow(LoopState(s, n - 1), s[n]) = LoopState(s, n)
  <1>1. Append(SubSeq(s, 1, n - 1), s[n]) = SubSeq(s, 1, n)
    OBVIOUS
  <1>2. LoopState(s, n - 1).rows = SubSeq(s, 1, n - 1)
    BY DEF LoopState
  <1>3. n # 0
    OBVIOUS
  <1>4. LoopState(s, n) = [rows |-> SubSeq(s, 1, n), array |-> FetchLengths(s[n])]
    BY <1>3 DEF LoopState
  <1> QED
    BY <1>1, <1>2, <1>4 DEF EmplaceRow

LEMMA LoopStart ==
    ASSUME NEW s \in Seq(Rows)
    PROVE  LoopState(s, 0) = NoResult
  <1>1. SubSeq(s, 1, 0) = <<>>
    OBVIOUS
  <1> QED
    BY <1>1 DEF LoopState, NoResult

LEMMA LoopEquation ==
    ASSUME NEW s \in Seq(Rows)
    PROVE  Emplaced(s) = [n \in 0..Len(s) |->
              IF n = 0 THEN NoResult ELSE EmplaceRow(Emplaced(s)[n - 1], s[n])]
  <1> DEFINE g == [n \in 0..Len(s) |-> LoopState(s, n)]
  <1>1. ASSUME NEW n \in 0..Len(s)
        PROVE  LoopState(s, n) = IF n = 0 THEN NoResult ELSE EmplaceRow(g[n - 1], s[n])
    <2>1. CASE n = 0
      BY <2>1, LoopStart
    <2>2. CASE n # 0
      <3>1. n \in 1..Len(s) /\ n - 1 \in 0..Len(s)
        BY <1>1, <2>2
      <3>2. g[n - 1] = LoopState(s, n - 1)
        BY <3>1
      <3> QED
        BY <2>2, <3>1, <3>2, LoopTurn
    <2> QED
      BY <2>1, <2>2
  <1>2. g = [n \in 0..Len(s) |-> IF n = 0 THEN NoResult ELSE EmplaceRow(g[n - 1], s[n])]
    BY <1>1
  <1>3. \E f : f = [n \in 0..Len(s) |-> IF n = 0 THEN NoResult ELSE EmplaceRow(f[n - 1], s[n])]
    BY <1>2
  <1> QED
    BY <1>3 DEF Emplaced

LEMMA LoopBuilds ==
    ASSUME NEW s \in Seq(Rows)
    PROVE  \A n \in 0..Len(s) : Emplaced(s)[n] = LoopState(s, n)
  <1> DEFINE T == {n \in 0..Len(s) : Emplaced(s)[n] # LoopState(s, n)}
  <1>1. SUFFICES ASSUME T # {} PROVE FALSE
    OBVIOUS
  <1>2. T \in SUBSET Nat
    OBVIOUS
  <1>3. PICK m \in T : \A k \in T : m <= k
    BY <1>1, <1>2, LeastNumber
  <1>4. m \in 0..Len(s) /\ Emplaced(s)[m] # LoopState(s, m)
    OBVIOUS
  <1>5. m # 0
    BY <1>4, LoopEquation, LoopStart
  <1>6. m \in 1..Len(s) /\ m - 1 \in 0..Len(s) /\ m - 1 \notin T
    BY <1>3, <1>4, <1>5
  <1>7. Emplaced(s)[m - 1] = LoopState(s, m - 1)
    BY <1>6
  <1>8. Emplaced(s)[m] = EmplaceRow(LoopState(s, m - 1), s[m])
    BY <1>4, <1>5, <1>7, LoopEquation
  <1> QED
    BY <1>4, <1>6, <1>8, LoopTurn

(* Init keeps every row of the set, in order, and the lengths of the last one. *)
THEOREM InitKeepsRows ==
    ASSUME NEW s \in Seq(Rows)
    PROVE  /\ InitResult(s).rows = s
           /\ s = <<>> => InitResult(s) = NoResult
           /\ s # <<>> => InitResult(s).array = FetchLengths(s[Len(s)])
  <1>1. Len(s) \in Nat /\ Len(s) \in 0..Len(s)
    OBVIOUS
  <1>2. InitResult(s) = LoopState(s, Len(s))
    BY <1>1, LoopBuilds DEF InitResult
  <1>3. SubSeq(s, 1, Len(s)) = s
    OBVIOUS
  <1>4. s # <<>> => Len(s) # 0
    OBVIOUS
  <1>5. s = <<>> => Len(s) = 0
    OBVIOUS
  <1> QED
    BY <1>2, <1>3, <1>4, <1>5, LoopStart DEF LoopState

-----------------------------------------------------------------------------
(* Every step keeps the invariant; the parts about the set are at the end. *)

CallParts == CallPoints /\ RunsCounted /\ AtMostTwice /\ TwiceOnlyAfterOutage
             /\ HandleOwnsSet /\ SuccessIsOwnResult

WordsOK ==
    /\ pc \in Points /\ op \in {"execute", "escape", "none"} /\ kind \in Kinds
    /\ handle \in Handles /\ server \in BOOLEAN /\ ret \in BOOLEAN

CountersOK ==
    /\ elapsed \in 0..(TimeOut + 1)
    /\ applied \in Nat /\ resultOf \in 0..calls /\ calls \in 0..MaxCalls
    /\ outages \in 0..MaxOutages /\ outagesBefore \in 0..outages
    /\ execCount \in Nat /\ failCount \in 0..execCount
    /\ maxExecTime \in 0..MaxExecTime /\ minExecTime \in 0..MaxExecTime

ScalarsOK == WordsOK /\ CountersOK

LEMMA ExecuteKeepsCall ==
    ASSUME ScalarsOK, CallParts, NEW k \in Kinds, Execute(k)
    PROVE  ScalarsOK' /\ CallParts'
  <1> USE TimeOutAssumption, BoundsAssumption
         DEF ScalarsOK, WordsOK, CountersOK, CallParts, Points, Handles, Connected, Kinds, callVars, traceInfo,
             Execute
  <1>1. ScalarsOK'
    <2>1. WordsOK'
      BY DEF CallPoints, WordsOK
    <2>2. CountersOK'
      BY DEF CallPoints, CountersOK
    <2> QED
      BY <2>1, <2>2
  <1>2. CallPoints'
    BY DEF CallPoints
  <1>3. RunsCounted'
    BY DEF RunsCounted, Retrying, CallPoints
  <1>4. AtMostTwice' /\ TwiceOnlyAfterOutage'
    BY DEF RunsCounted, Retrying, AtMostTwice, TwiceOnlyAfterOutage
  <1>5. HandleOwnsSet'
    BY DEF HandleOwnsSet, CallPoints, SuccessIsOwnResult
  <1>6. SuccessIsOwnResult'
    BY DEF SuccessIsOwnResult, HandleOwnsSet, CallPoints
  <1> QED
    BY <1>1, <1>2, <1>3, <1>4, <1>5, <1>6

LEMMA EscapeStringExKeepsCall ==
    ASSUME ScalarsOK, CallParts, EscapeStringEx
    PROVE  ScalarsOK' /\ CallParts'
  <1> USE TimeOutAssumption, BoundsAssumption
         DEF ScalarsOK, WordsOK, CountersOK, CallParts, Points, Handles, Connected, Kinds, callVars, traceInfo,
             EscapeStringEx
  <1>1. ScalarsOK'
    <2>1. WordsOK'
      BY DEF CallPoints, WordsOK
    <2>2. CountersOK'
      BY DEF CallPoints, CountersOK
    <2> QED
      BY <2>1, <2>2
  <1>2. CallPoints'
    BY DEF CallPoints
  <1>3. RunsCounted'
    BY DEF RunsCounted, Retrying, CallPoints
  <1>4. AtMostTwice' /\ TwiceOnlyAfterOutage'
    BY DEF RunsCounted, Retrying, AtMostTwice, TwiceOnlyAfterOutage
  <1>5. HandleOwnsSet'
    BY DEF HandleOwnsSet, CallPoints, SuccessIsOwnResult
  <1>6. SuccessIsOwnResult'
    BY DEF SuccessIsOwnResult, HandleOwnsSet, CallPoints
  <1> QED
    BY <1>1, <1>2, <1>3, <1>4, <1>5, <1>6

LEMMA QueryAnsweredKeepsCall ==
    ASSUME ScalarsOK, CallParts, QueryAnswered
    PROVE  ScalarsOK' /\ CallParts'
  <1> USE TimeOutAssumption, BoundsAssumption
         DEF ScalarsOK, WordsOK, CountersOK, CallParts, Points, Handles, Connected, Kinds, callVars, traceInfo,
             QueryAnswered, Reachable, AfterSuccess, AfterFailure
  <1>1. ScalarsOK'
    <2>1. WordsOK'
      BY DEF CallPoints, WordsOK
    <2>2. CountersOK'
      BY DEF CallPoints, CountersOK
    <2> QED
      BY <2>1, <2>2
  <1>2. CallPoints'
    BY DEF CallPoints
  <1>3. RunsCounted'
    BY DEF RunsCounted, Retrying, CallPoints
  <1>4. AtMostTwice' /\ TwiceOnlyAfterOutage'
    BY DEF RunsCounted, Retrying, AtMostTwice, TwiceOnlyAfterOutage
  <1>5. HandleOwnsSet'
    BY DEF HandleOwnsSet, CallPoints, SuccessIsOwnResult
  <1>6. SuccessIsOwnResult'
    BY DEF SuccessIsOwnResult, HandleOwnsSet, CallPoints
  <1> QED
    BY <1>1, <1>2, <1>3, <1>4, <1>5, <1>6

LEMMA QueryLostKeepsCall ==
    ASSUME ScalarsOK, CallParts, QueryLost
    PROVE  ScalarsOK' /\ CallParts'
  <1> USE TimeOutAssumption, BoundsAssumption
         DEF ScalarsOK, WordsOK, CountersOK, CallParts, Points, Handles, Connected, Kinds, callVars, traceInfo,
             QueryLost, Reachable, AfterFailure
  <1>1. ScalarsOK'
    <2>1. WordsOK'
      BY DEF CallPoints, WordsOK
    <2>2. CountersOK'
      BY DEF CallPoints, CountersOK
    <2> QED
      BY <2>1, <2>2
  <1>2. CallPoints'
    BY DEF CallPoints
  <1>3. RunsCounted'
    BY DEF RunsCounted, Retrying, CallPoints
  <1>4. AtMostTwice' /\ TwiceOnlyAfterOutage'
    BY DEF RunsCounted, Retrying, AtMostTwice, TwiceOnlyAfterOutage
  <1>5. HandleOwnsSet'
    BY DEF HandleOwnsSet, CallPoints, SuccessIsOwnResult
  <1>6. SuccessIsOwnResult'
    BY DEF SuccessIsOwnResult, HandleOwnsSet, CallPoints
  <1> QED
    BY <1>1, <1>2, <1>3, <1>4, <1>5, <1>6

LEMMA QueryRefusedKeepsCall ==
    ASSUME ScalarsOK, CallParts, QueryRefused
    PROVE  ScalarsOK' /\ CallParts'
  <1> USE TimeOutAssumption, BoundsAssumption
         DEF ScalarsOK, WordsOK, CountersOK, CallParts, Points, Handles, Connected, Kinds, callVars, traceInfo,
             QueryRefused, Reachable, AfterFailure
  <1>1. ScalarsOK'
    <2>1. WordsOK'
      BY DEF CallPoints, WordsOK
    <2>2. CountersOK'
      BY DEF CallPoints, CountersOK
    <2> QED
      BY <2>1, <2>2
  <1>2. CallPoints'
    BY DEF CallPoints
  <1>3. RunsCounted'
    BY DEF RunsCounted, Retrying, CallPoints
  <1>4. AtMostTwice' /\ TwiceOnlyAfterOutage'
    BY DEF RunsCounted, Retrying, AtMostTwice, TwiceOnlyAfterOutage
  <1>5. HandleOwnsSet'
    BY DEF HandleOwnsSet, CallPoints, SuccessIsOwnResult
  <1>6. SuccessIsOwnResult'
    BY DEF SuccessIsOwnResult, HandleOwnsSet, CallPoints
  <1> QED
    BY <1>1, <1>2, <1>3, <1>4, <1>5, <1>6

LEMMA PingKeepsCall ==
    ASSUME ScalarsOK, CallParts, Ping
    PROVE  ScalarsOK' /\ CallParts'
  <1> USE TimeOutAssumption, BoundsAssumption
         DEF ScalarsOK, WordsOK, CountersOK, CallParts, Points, Handles, Connected, Kinds, callVars, traceInfo,
             Ping, Reachable, AfterActive
  <1>1. ScalarsOK'
    <2>1. WordsOK'
      BY DEF CallPoints, WordsOK
    <2>2. CountersOK'
      BY DEF CallPoints, CountersOK
    <2> QED
      BY <2>1, <2>2
  <1>2. CallPoints'
    BY DEF CallPoints
  <1>3. RunsCounted'
    BY DEF RunsCounted, Retrying, CallPoints
  <1>4. AtMostTwice' /\ TwiceOnlyAfterOutage'
    BY DEF RunsCounted, Retrying, AtMostTwice, TwiceOnlyAfterOutage
  <1>5. HandleOwnsSet'
    BY DEF HandleOwnsSet, CallPoints, SuccessIsOwnResult
  <1>6. SuccessIsOwnResult'
    BY DEF SuccessIsOwnResult, HandleOwnsSet, CallPoints
  <1> QED
    BY <1>1, <1>2, <1>3, <1>4, <1>5, <1>6

LEMMA CheckTimeKeepsCall ==
    ASSUME ScalarsOK, CallParts, CheckTime
    PROVE  ScalarsOK' /\ CallParts'
  <1> USE TimeOutAssumption, BoundsAssumption
         DEF ScalarsOK, WordsOK, CountersOK, CallParts, Points, Handles, Connected, Kinds, callVars, traceInfo,
             CheckTime, Expired
  <1>1. ScalarsOK'
    <2>1. WordsOK'
      BY DEF CallPoints, WordsOK
    <2>2. CountersOK'
      BY DEF CallPoints, CountersOK
    <2> QED
      BY <2>1, <2>2
  <1>2. CallPoints'
    BY DEF CallPoints
  <1>3. RunsCounted'
    BY DEF RunsCounted, Retrying, CallPoints
  <1>4. AtMostTwice' /\ TwiceOnlyAfterOutage'
    BY DEF RunsCounted, Retrying, AtMostTwice, TwiceOnlyAfterOutage
  <1>5. HandleOwnsSet'
    BY DEF HandleOwnsSet, CallPoints, SuccessIsOwnResult
  <1>6. SuccessIsOwnResult'
    BY DEF SuccessIsOwnResult, HandleOwnsSet, CallPoints
  <1> QED
    BY <1>1, <1>2, <1>3, <1>4, <1>5, <1>6

LEMMA ReopenKeepsCall ==
    ASSUME ScalarsOK, CallParts, Reopen
    PROVE  ScalarsOK' /\ CallParts'
  <1> USE TimeOutAssumption, BoundsAssumption
         DEF ScalarsOK, WordsOK, CountersOK, CallParts, Points, Handles, Connected, Kinds, callVars, traceInfo,
             Reopen, AfterActive
  <1>1. ScalarsOK'
    <2>1. WordsOK'
      BY DEF CallPoints, WordsOK
    <2>2. CountersOK'
      BY DEF CallPoints, CountersOK
    <2> QED
      BY <2>1, <2>2
  <1>2. CallPoints'
    BY DEF CallPoints
  <1>3. RunsCounted'
    BY DEF RunsCounted, Retrying, CallPoints
  <1>4. AtMostTwice' /\ TwiceOnlyAfterOutage'
    BY DEF RunsCounted, Retrying, AtMostTwice, TwiceOnlyAfterOutage
  <1>5. HandleOwnsSet'
    BY DEF HandleOwnsSet, CallPoints, SuccessIsOwnResult
  <1>6. SuccessIsOwnResult'
    BY DEF SuccessIsOwnResult, HandleOwnsSet, CallPoints
  <1> QED
    BY <1>1, <1>2, <1>3, <1>4, <1>5, <1>6

LEMMA ReturnKeepsCall ==
    ASSUME ScalarsOK, CallParts, NEW execTime \in 0..MaxExecTime, Return(execTime)
    PROVE  ScalarsOK' /\ CallParts'
  <1> USE TimeOutAssumption, BoundsAssumption
         DEF ScalarsOK, WordsOK, CountersOK, CallParts, Points, Handles, Connected, Kinds, callVars, traceInfo,
             Return
  <1>1. ScalarsOK'
    <2>1. WordsOK'
      BY DEF CallPoints, WordsOK
    <2>2. CountersOK'
      BY DEF CallPoints, CountersOK
    <2> QED
      BY <2>1, <2>2
  <1>2. CallPoints'
    BY DEF CallPoints
  <1>3. RunsCounted'
    BY DEF RunsCounted, Retrying, CallPoints
  <1>4. AtMostTwice' /\ TwiceOnlyAfterOutage'
    BY DEF RunsCounted, Retrying, AtMostTwice, TwiceOnlyAfterOutage
  <1>5. HandleOwnsSet'
    BY DEF HandleOwnsSet, CallPoints, SuccessIsOwnResult
  <1>6. SuccessIsOwnResult'
    BY DEF SuccessIsOwnResult, HandleOwnsSet, CallPoints
  <1> QED
    BY <1>1, <1>2, <1>3, <1>4, <1>5, <1>6

LEMMA LinkLostKeepsCall ==
    ASSUME ScalarsOK, CallParts, LinkLost
    PROVE  ScalarsOK' /\ CallParts'
  <1> USE TimeOutAssumption, BoundsAssumption
         DEF ScalarsOK, WordsOK, CountersOK, CallParts, Points, Handles, Connected, Kinds, callVars, traceInfo,
             LinkLost, Broken
  <1>1. ScalarsOK'
    <2>1. WordsOK'
      BY DEF CallPoints, WordsOK
    <2>2. CountersOK'
      BY DEF CallPoints, CountersOK
    <2> QED
      BY <2>1, <2>2
  <1>2. CallPoints'
    BY DEF CallPoints
  <1>3. RunsCounted'
    BY DEF RunsCounted, Retrying, CallPoints
  <1>4. AtMostTwice' /\ TwiceOnlyAfterOutage'
    BY DEF RunsCounted, Retrying, AtMostTwice, TwiceOnlyAfterOutage
  <1>5. HandleOwnsSet'
    BY DEF HandleOwnsSet, CallPoints, SuccessIsOwnResult
  <1>6. SuccessIsOwnResult'
    BY DEF SuccessIsOwnResult, HandleOwnsSet, CallPoints
  <1> QED
    BY <1>1, <1>2, <1>3, <1>4, <1>5, <1>6

LEMMA ServerDownKeepsCall ==
    ASSUME ScalarsOK, CallParts, ServerDown
    PROVE  ScalarsOK' /\ CallParts'
  <1> USE TimeOutAssumption, BoundsAssumption
         DEF ScalarsOK, WordsOK, CountersOK, CallParts, Points, Handles, Connected, Kinds, callVars, traceInfo,
             ServerDown, Broken
  <1>1. ScalarsOK'
    <2>1. WordsOK'
      BY DEF CallPoints, WordsOK
    <2>2. CountersOK'
      BY DEF CallPoints, CountersOK
    <2> QED
      BY <2>1, <2>2
  <1>2. CallPoints'
    BY DEF CallPoints
  <1>3. RunsCounted'
    BY DEF RunsCounted, Retrying, CallPoints
  <1>4. AtMostTwice' /\ TwiceOnlyAfterOutage'
    BY DEF RunsCounted, Retrying, AtMostTwice, TwiceOnlyAfterOutage
  <1>5. HandleOwnsSet'
    BY DEF HandleOwnsSet, CallPoints, SuccessIsOwnResult
  <1>6. SuccessIsOwnResult'
    BY DEF SuccessIsOwnResult, HandleOwnsSet, CallPoints
  <1> QED
    BY <1>1, <1>2, <1>3, <1>4, <1>5, <1>6

LEMMA ServerUpKeepsCall ==
    ASSUME ScalarsOK, CallParts, ServerUp
    PROVE  ScalarsOK' /\ CallParts'
  <1> USE TimeOutAssumption, BoundsAssumption
         DEF ScalarsOK, WordsOK, CountersOK, CallParts, Points, Handles, Connected, Kinds, callVars, traceInfo,
             ServerUp
  <1>1. ScalarsOK'
    <2>1. WordsOK'
      BY DEF CallPoints, WordsOK
    <2>2. CountersOK'
      BY DEF CallPoints, CountersOK
    <2> QED
      BY <2>1, <2>2
  <1>2. CallPoints'
    BY DEF CallPoints
  <1>3. RunsCounted'
    BY DEF RunsCounted, Retrying, CallPoints
  <1>4. AtMostTwice' /\ TwiceOnlyAfterOutage'
    BY DEF RunsCounted, Retrying, AtMostTwice, TwiceOnlyAfterOutage
  <1>5. HandleOwnsSet'
    BY DEF HandleOwnsSet, CallPoints, SuccessIsOwnResult
  <1>6. SuccessIsOwnResult'
    BY DEF SuccessIsOwnResult, HandleOwnsSet, CallPoints
  <1> QED
    BY <1>1, <1>2, <1>3, <1>4, <1>5, <1>6

LEMMA TickKeepsCall ==
    ASSUME ScalarsOK, CallParts, Tick
    PROVE  ScalarsOK' /\ CallParts'
  <1> USE TimeOutAssumption, BoundsAssumption
         DEF ScalarsOK, WordsOK, CountersOK, CallParts, Points, Handles, Connected, Kinds, callVars, traceInfo,
             Tick
  <1>1. ScalarsOK'
    <2>1. WordsOK'
      BY DEF CallPoints, WordsOK
    <2>2. CountersOK'
      BY DEF CallPoints, CountersOK
    <2> QED
      BY <2>1, <2>2
  <1>2. CallPoints'
    BY DEF CallPoints
  <1>3. RunsCounted'
    BY DEF RunsCounted, Retrying, CallPoints
  <1>4. AtMostTwice' /\ TwiceOnlyAfterOutage'
    BY DEF RunsCounted, Retrying, AtMostTwice, TwiceOnlyAfterOutage
  <1>5. HandleOwnsSet'
    BY DEF HandleOwnsSet, CallPoints, SuccessIsOwnResult
  <1>6. SuccessIsOwnResult'
    BY DEF SuccessIsOwnResult, HandleOwnsSet, CallPoints
  <1> QED
    BY <1>1, <1>2, <1>3, <1>4, <1>5, <1>6

LEMMA StoreKeepsCall ==
    ASSUME ScalarsOK, CallParts, NEW rows \in Sets, StoreResult(rows)
    PROVE  ScalarsOK' /\ CallParts'
  <1> USE TimeOutAssumption, BoundsAssumption
         DEF ScalarsOK, WordsOK, CountersOK, CallParts, Points, Handles, Connected, Kinds, callVars, traceInfo,
             StoreResult
  <1>1. ScalarsOK' /\ CallPoints' /\ HandleOwnsSet' /\ SuccessIsOwnResult'
    BY DEF CallPoints, HandleOwnsSet, SuccessIsOwnResult
  <1>2. RunsCounted' /\ AtMostTwice' /\ TwiceOnlyAfterOutage'
    BY DEF RunsCounted, Retrying, AtMostTwice, TwiceOnlyAfterOutage
  <1> QED
    BY <1>1, <1>2

(* The set and the MysqlResult made of it. *)

TakenOK == /\ set \in Seq(Rows) /\ result.rows \in Seq(Rows)
           /\ result.array \in [Fields -> 0..MaxLength]

TakenParts == TakenOK /\ RowsComplete /\ ResultOfSet

LEMMA LengthsTyped ==
    ASSUME NEW r \in Rows
    PROVE  FetchLengths(r) \in [Fields -> 0..MaxLength]
  <1>1. ASSUME NEW f \in Fields
        PROVE  (IF r[f] = NULL THEN 0 ELSE r[f]) \in 0..MaxLength
    BY FieldCountAssumption DEF Rows
  <1> QED
    BY <1>1 DEF FetchLengths

LEMMA NoResultTyped ==
    NoResult.rows = <<>> /\ NoResult.array \in [Fields -> 0..MaxLength]
  BY FieldCountAssumption DEF NoResult

LEMMA InitResultTyped ==
    ASSUME NEW s \in Seq(Rows)
    PROVE  InitResult(s).array \in [Fields -> 0..MaxLength]
  <1>1. CASE s = <<>>
    BY <1>1, InitKeepsRows, NoResultTyped
  <1>2. CASE s # <<>>
    <2>1. s[Len(s)] \in Rows
      BY <1>2
    <2> QED
      BY <1>2, <2>1, InitKeepsRows, LengthsTyped
  <1> QED
    BY <1>1, <1>2

(* A call begins with an empty MysqlResult. *)
LEMMA BeginsEmpty ==
    ASSUME set' = <<>>, result' = NoResult
    PROVE  TakenParts'
  BY NoResultTyped DEF TakenParts, TakenOK, RowsComplete, ResultOfSet

(* A set that lost its rows to the outage has seen one since its statement. *)
LEMMA StoreKeepsTaken ==
    ASSUME ScalarsOK, CallParts, NEW rows \in Sets, StoreResult(rows)
    PROVE  TakenParts'
  <1>1. rows \in Seq(Rows)
    BY FieldCountAssumption DEF Sets, SeqOf
  <1>2. set' = rows /\ (result' = InitResult(rows) \/ (handle = "cut" /\ result' = NoResult))
    BY DEF StoreResult
  <1>3. CASE result' = InitResult(rows)
    <2>1. result'.rows = rows /\ result'.array \in [Fields -> 0..MaxLength]
      BY <1>1, <1>3, InitKeepsRows, InitResultTyped
    <2>2. rows # <<>> => result'.array = FetchLengths(rows[Len(rows)])
      BY <1>1, <1>3, InitKeepsRows
    <2> QED
      BY <1>1, <1>2, <2>1, <2>2 DEF TakenParts, TakenOK, RowsComplete, ResultOfSet
  <1>4. CASE handle = "cut" /\ result' = NoResult
    <2>1. pc = "idle" /\ handle = "cut" /\ UNCHANGED <<callVars, outages>>
      BY <1>4 DEF StoreResult
    <2>2. resultOf = calls
      BY <2>1 DEF CallParts, HandleOwnsSet
    <2>3. outages' > outagesBefore'
      BY <1>4, <2>1, <2>2 DEF CallParts, HandleOwnsSet, callVars
    <2> QED
      BY <1>1, <1>2, <1>4, <2>3, NoResultTyped DEF TakenParts, TakenOK, RowsComplete, ResultOfSet
  <1> QED
    BY <1>2, <1>3, <1>4

(* Between two calls outages only grow. *)
LEMMA OthersKeepTaken ==
    ASSUME ScalarsOK, TakenParts, UNCHANGED <<taken, outagesBefore>>,
           outages' = outages \/ outages' = outages + 1
    PROVE  TakenParts'
  BY DEF TakenParts, TakenOK, RowsComplete, ResultOfSet, taken, ScalarsOK, CountersOK

(* The named parts are the invariant. *)
LEMMA InvParts == CallInv <=> ScalarsOK /\ CallParts /\ TakenParts
  BY DEF CallInv, TypeOK, ScalarsOK, WordsOK, CountersOK, CallParts, TakenParts, TakenOK

LEMMA InvInit == Init => CallInv
  <1> SUFFICES ASSUME Init PROVE CallInv
    OBVIOUS
  <1>1. ScalarsOK
    <2>1. WordsOK
      BY DEF Init, WordsOK, Points, Handles, Kinds
    <2>2. CountersOK
      BY TimeOutAssumption, BoundsAssumption DEF Init, CountersOK
    <2> QED
      BY <2>1, <2>2 DEF ScalarsOK
  <1>2. CallParts
    BY DEF Init, CallParts, CallPoints, RunsCounted, Retrying, AtMostTwice, TwiceOnlyAfterOutage,
           HandleOwnsSet, Connected, SuccessIsOwnResult
  <1>3. TakenParts
    BY NoResultTyped DEF Init, TakenParts, TakenOK, RowsComplete, ResultOfSet
  <1> QED
    BY <1>1, <1>2, <1>3, InvParts

LEMMA InvStep ==
    ASSUME CallInv, [Next]_vars
    PROVE  CallInv'
  <1>p. ScalarsOK /\ CallParts /\ TakenParts
    BY InvParts
  <1> SUFFICES ScalarsOK' /\ CallParts' /\ TakenParts'
    BY DEF CallInv, TypeOK, ScalarsOK, WordsOK, CountersOK, CallParts, TakenParts, TakenOK
  <1>1. ASSUME NEW k \in Kinds, Execute(k) PROVE ScalarsOK' /\ CallParts' /\ TakenParts'
    BY <1>p, <1>1, ExecuteKeepsCall, BeginsEmpty DEF Execute
  <1>2. ASSUME EscapeStringEx PROVE ScalarsOK' /\ CallParts' /\ TakenParts'
    BY <1>p, <1>2, EscapeStringExKeepsCall, BeginsEmpty DEF EscapeStringEx
  <1>3. ASSUME NEW rows \in Sets, StoreResult(rows) PROVE ScalarsOK' /\ CallParts' /\ TakenParts'
    BY <1>p, <1>3, StoreKeepsCall, StoreKeepsTaken
  <1>4. ASSUME ThreadStep \/ LinkLost \/ ServerDown \/ ServerUp \/ Tick
        PROVE  /\ UNCHANGED <<taken, outagesBefore>>
               /\ outages' = outages \/ outages' = outages + 1
    BY <1>4 DEF ThreadStep, QueryAnswered, QueryLost, QueryRefused, Ping, CheckTime, Reopen, Return,
                LinkLost, ServerDown, ServerUp, Tick, callVars
  <1>5. ASSUME ThreadStep PROVE ScalarsOK' /\ CallParts'
    BY <1>p, <1>5, QueryAnsweredKeepsCall, QueryLostKeepsCall, QueryRefusedKeepsCall,
       PingKeepsCall, CheckTimeKeepsCall, ReopenKeepsCall, ReturnKeepsCall DEF ThreadStep
  <1>6. ASSUME LinkLost \/ ServerDown \/ ServerUp \/ Tick PROVE ScalarsOK' /\ CallParts'
    BY <1>p, <1>6, LinkLostKeepsCall, ServerDownKeepsCall, ServerUpKeepsCall, TickKeepsCall
  <1>7. ASSUME ThreadStep \/ LinkLost \/ ServerDown \/ ServerUp \/ Tick PROVE TakenParts'
    BY <1>p, <1>4, <1>7, OthersKeepTaken
  <1>8. ASSUME UNCHANGED vars PROVE ScalarsOK' /\ CallParts' /\ TakenParts'
    <2> USE <1>p, <1>8 DEF vars, callVars, traceInfo
    <2>1. ScalarsOK'
      BY DEF ScalarsOK, WordsOK, CountersOK
    <2>2. CallParts'
      BY DEF CallParts, CallPoints, RunsCounted, AtMostTwice, TwiceOnlyAfterOutage,
             HandleOwnsSet, SuccessIsOwnResult
    <2>3. TakenParts'
      BY OthersKeepTaken
    <2> QED
      BY <2>1, <2>2, <2>3
  <1> QED
    BY <1>1, <1>2, <1>3, <1>5, <1>6, <1>7, <1>8 DEF Next

-----------------------------------------------------------------------------
(* Types, for every time-out and every number of calls and outages. *)
THEOREM CallTypeCorrect == Spec => []TypeOK
  <1>1. CallInv => TypeOK
    BY DEF CallInv
  <1> QED
    BY InvInit, InvStep, <1>1, PTL DEF Spec

(***************************************************************************)
(* However often the link and the server fail, the server runs a statement *)
(* at most twice for one execute() (InnerExecute).                         *)
(***************************************************************************)
THEOREM OneRetry == Spec => []AtMostTwice
  <1>1. CallInv => AtMostTwice
    BY DEF CallInv
  <1> QED
    BY InvInit, InvStep, <1>1, PTL DEF Spec

(* A statement that ran twice means that something failed during its call. *)
THEOREM RerunMeansOutage == Spec => []TwiceOnlyAfterOutage
  <1>1. CallInv => TwiceOnlyAfterOutage
    BY DEF CallInv
  <1> QED
    BY InvInit, InvStep, <1>1, PTL DEF Spec

(***************************************************************************)
(* A call leaves no result set but its own, whatever earlier calls left    *)
(* unread and whatever failed: what MysqlMgr's outcomes rest on.           *)
(***************************************************************************)
THEOREM ResultOwnership == Spec => []SuccessIsOwnResult
  <1>1. CallInv => SuccessIsOwnResult
    BY DEF CallInv
  <1> QED
    BY InvInit, InvStep, <1>1, PTL DEF Spec

(* No row of a result set of any size is lost, unless something failed. *)
THEOREM NoRowLost == Spec => []RowsComplete
  <1>1. CallInv => RowsComplete
    BY DEF CallInv
  <1> QED
    BY InvInit, InvStep, <1>1, PTL DEF Spec

(* GetBuff is exact for the last row of a result set of any size. *)
THEOREM LastRowLengths == Spec => []LastRowIsExact
  <1>1. CallInv => LastRowIsExact
    <2> SUFFICES ASSUME CallInv, Len(result.rows) > 0, NEW f \in Fields
                 PROVE  GetBuff(result, Len(result.rows), f) = set[Len(result.rows)][f]
      BY DEF LastRowIsExact
    <2>1. result.rows \in Seq(Rows) /\ result.rows # <<>>
      BY DEF CallInv, TypeOK
    <2>2. result # NoResult
      BY <2>1, NoResultTyped
    <2>3. /\ result.rows = set /\ set # <<>>
          /\ result.array = FetchLengths(set[Len(set)])
      BY <2>1, <2>2 DEF CallInv, ResultOfSet
    <2> QED
      BY <2>3 DEF GetBuff, FetchLengths
  <1> QED
    BY InvInit, InvStep, <1>1, PTL DEF Spec
=============================================================================
