------------------------- MODULE RateLimiterProofs -------------------------
(***************************************************************************)
(* What RateLimiter promises for every set of requests, every limit, window*)
(* and clock.  The token sum is a cardinality, so the arithmetic of the    *)
(* budget is that of unions and products of finite sets.                   *)
(***************************************************************************)
EXTENDS RateLimiter, FiniteSetTheorems, WellFoundedInduction, TLAPS

----------------------------------------------------------------------------
(* Token sums.                                                             *)

(* The units of finitely many rows are finitely many.                      *)
LEMMA UnitsFinite ==
    ASSUME NEW tab, NEW ids, IsFiniteSet(ids),
           \A id \in ids : tab[id].tokens \in Int
    PROVE  IsFiniteSet(Units(tab, ids)) /\ SumTokens(tab, ids) \in Nat
<1> DEFINE f == [id \in ids |-> {id} \X (1 .. tab[id].tokens)]
           T == {{id} \X (1 .. tab[id].tokens) : id \in ids}
<1>1. f \in Surjection(ids, T)
    BY DEF Surjection
<1>2. IsFiniteSet(T)
    BY <1>1, FS_Surjection
<1>3. ASSUME NEW id \in ids PROVE IsFiniteSet({id} \X (1 .. tab[id].tokens))
  <2>1. IsFiniteSet({id})
      BY FS_Singleton
  <2>2. IsFiniteSet(1 .. tab[id].tokens)
      BY FS_Interval
  <2> QED BY <2>1, <2>2, FS_Product
<1>4. \A S \in T : IsFiniteSet(S)
    BY <1>3
<1>5. IsFiniteSet(UNION T)
    BY <1>2, <1>4, FS_UNION
<1> QED BY <1>5, FS_CardinalityType DEF Units, SumTokens

(* Fewer rows, each with no more tokens, hold no more tokens.              *)
LEMMA SumMonotone ==
    ASSUME NEW tab, NEW ids, NEW tab2, NEW ids2, IsFiniteSet(ids2), ids \subseteq ids2,
           \A id \in ids2 : tab2[id].tokens \in Int,
           \A id \in ids : tab[id].tokens \in Int /\ tab[id].tokens <= tab2[id].tokens
    PROVE  SumTokens(tab, ids) <= SumTokens(tab2, ids2)
<1>1. IsFiniteSet(Units(tab2, ids2))
    BY UnitsFinite
<1>2. Units(tab, ids) \subseteq Units(tab2, ids2)
  <2>1. ASSUME NEW id \in ids
        PROVE {id} \X (1 .. tab[id].tokens) \subseteq {id} \X (1 .. tab2[id].tokens)
      OBVIOUS
  <2> QED BY <2>1 DEF Units
<1> QED BY <1>1, <1>2, FS_Subset DEF SumTokens

(* A hold of n tokens adds at most n to the sum.                           *)
LEMMA SumInsert ==
    ASSUME NEW tab, NEW ids, IsFiniteSet(ids), \A id \in ids : tab[id].tokens \in Int,
           NEW r, NEW n \in Nat, NEW S,
           S \subseteq Units(tab, ids) \cup ({r} \X (1 .. n))
    PROVE  Cardinality(S) <= SumTokens(tab, ids) + n
<1> DEFINE U == Units(tab, ids)
           V == {r} \X (1 .. n)
<1>1. IsFiniteSet(U) /\ Cardinality(U) \in Nat
    BY UnitsFinite DEF SumTokens
<1>2. IsFiniteSet({r}) /\ Cardinality({r}) = 1
    BY FS_Singleton
<1>3. IsFiniteSet(1 .. n) /\ Cardinality(1 .. n) = n
    BY FS_Interval
<1>4. IsFiniteSet(V) /\ Cardinality(V) = n
  <2>1. IsFiniteSet(V) /\ Cardinality(V) = Cardinality({r}) * Cardinality(1 .. n)
      BY <1>2, <1>3, FS_Product
  <2> QED BY <1>2, <1>3, <2>1
<1>5. IsFiniteSet(U \cup V) /\ Cardinality(U \cup V) <= Cardinality(U) + n
  <2>1. IsFiniteSet(U \cap V) /\ Cardinality(U \cap V) \in Nat
      BY <1>1, FS_Subset, FS_CardinalityType
  <2> QED BY <1>1, <1>4, <2>1, FS_Union
<1>6. Cardinality(S) <= Cardinality(U \cup V)
    BY <1>5, FS_Subset
<1>7. Cardinality(S) \in Nat /\ Cardinality(U \cup V) \in Nat
    BY <1>5, FS_Subset, FS_CardinalityType
<1> QED BY <1>1, <1>5, <1>6, <1>7 DEF SumTokens

----------------------------------------------------------------------------
(* The inductive invariant.                                                *)

LEMMA InvInit == Init => IInv
<1> SUFFICES ASSUME Init PROVE IInv
    OBVIOUS
<1>1. TypeOK
  <2>1. NoAsk \in [key : Keys, tokens : Int, at : Time, actual : Nat]
      BY KeysAssumption, ClockAssumption DEF NoAsk, Time
  <2>2. Rows = {}
      BY DEF Init, Rows
  <2> QED BY <2>1, <2>2, ClockAssumption DEF Init, TypeOK, Rows, CallStates, Jobs, Time
<1> QED BY <1>1 DEF Init, IInv, JobsFit, RowsMatch, LedgerAgrees, Rows

LEMMA InvStep == IInv /\ [Next]_vars => IInv'
<1> SUFFICES ASSUME IInv, [Next]_vars PROVE IInv'
    OBVIOUS
<1> USE DEF IInv
<1>1. ASSUME NEW r \in Requests, CallReserve(r) PROVE IInv'
  <2> USE <1>1 DEF CallReserve
  <2>1. TypeOK'
      BY EstimatesAssumption, OverrunAssumption DEF TypeOK, CallStates, Jobs, Ops, Rows, Row
  <2>2. JobsFit'
      BY DEF JobsFit, TypeOK, Ops
  <2>3. RowsMatch'
      BY DEF RowsMatch, LedgerAgrees, TypeOK, Rows, JobsFit
  <2>4. LedgerAgrees'
      BY DEF LedgerAgrees, JobsFit, TypeOK, Rows
  <2> QED BY <2>1, <2>2, <2>3, <2>4
<1>2. ASSUME NEW r \in Requests, CallCommit(r) PROVE IInv'
  <2> USE <1>2 DEF CallCommit
  <2>1. PICK actual \in 0 .. ask[r].tokens + MaxOverrun :
            ask' = [ask EXCEPT ![r].actual = actual]
      OBVIOUS
  <2>2. /\ ask'[r] = [key |-> ask[r].key, tokens |-> ask[r].tokens,
                      at |-> ask[r].at, actual |-> actual]
        /\ \A q \in Requests \ {r} : ask'[q] = ask[q]
        /\ DOMAIN ask' = Requests
      BY <2>1 DEF TypeOK
  <2>3. ask[r].tokens \in Int /\ actual \in Nat /\ actual <= ask[r].tokens + MaxOverrun
      BY OverrunAssumption DEF TypeOK
  <2>4. TypeOK'
      BY <2>1, <2>3 DEF TypeOK, CallStates, Jobs, Ops, Rows
  <2>5. JobsFit'
    <3>1. call[r] = "held" /\ call'[r] = "committing"
        BY DEF TypeOK
    <3>2. \A q \in Requests \ {r} : call'[q] = call[q]
        BY DEF TypeOK
    <3>3. \A op \in Ops : <<r, op>> \notin queued \cup running
        BY <3>1 DEF JobsFit, Ops
    <3>4. queued' \cap running' = {}
        BY <3>3 DEF JobsFit, Ops
    <3>5. ASSUME NEW q \in Requests \ {r} PROVE
            /\ \A op \in Ops : <<q, op>> \in queued' \cup running' <=>
                                <<q, op>> \in queued \cup running
            /\ ask'[q] = ask[q]
        BY <2>2
    <3> QED BY <2>2, <2>3, <3>1, <3>2, <3>3, <3>4, <3>5 DEF JobsFit, Ops
  <2>6. RowsMatch'
      BY <2>2 DEF RowsMatch, LedgerAgrees, TypeOK, Rows
  <2>7. LedgerAgrees'
      BY <2>2 DEF LedgerAgrees, TypeOK, Rows
  <2> QED BY <2>4, <2>5, <2>6, <2>7
<1>3. ASSUME NEW r \in Requests, CallRelease(r) PROVE IInv'
  <2> USE <1>3 DEF CallRelease
  <2>1. TypeOK'
      BY EstimatesAssumption, OverrunAssumption DEF TypeOK, CallStates, Jobs, Ops, Rows, Row
  <2>2. JobsFit'
      BY DEF JobsFit, TypeOK, Ops
  <2>3. RowsMatch'
      BY DEF RowsMatch, LedgerAgrees, TypeOK, Rows, JobsFit
  <2>4. LedgerAgrees'
      BY DEF LedgerAgrees, JobsFit, TypeOK, Rows
  <2> QED BY <2>1, <2>2, <2>3, <2>4
<1>4. ASSUME NEW r \in Requests, Cancel(r) PROVE IInv'
  <2> USE <1>4 DEF Cancel, Awaited
  <2>1. TypeOK'
      BY EstimatesAssumption, OverrunAssumption DEF TypeOK, CallStates, Jobs, Ops, Rows, Row
  <2>2. JobsFit'
      BY DEF JobsFit, TypeOK, Ops
  <2>3. RowsMatch'
      BY DEF RowsMatch, LedgerAgrees, TypeOK, Rows, JobsFit
  <2>4. LedgerAgrees'
      BY DEF LedgerAgrees, JobsFit, TypeOK, Rows
  <2> QED BY <2>1, <2>2, <2>3, <2>4
<1>5. ASSUME NEW r \in Requests, NEW op \in Ops, StartJob(r, op) PROVE IInv'
  <2> USE <1>5 DEF StartJob
  <2>1. TypeOK'
      BY EstimatesAssumption, OverrunAssumption DEF TypeOK, CallStates, Jobs, Ops, Rows, Row
  <2>2. JobsFit'
      BY DEF JobsFit, TypeOK, Ops
  <2>3. RowsMatch'
      BY DEF RowsMatch, LedgerAgrees, TypeOK, Rows, JobsFit
  <2>4. LedgerAgrees'
      BY DEF LedgerAgrees, JobsFit, TypeOK, Rows
  <2> QED BY <2>1, <2>2, <2>3, <2>4
<1>6. ASSUME NEW r \in Requests, Grant(r) PROVE IInv'
  <2> USE <1>6 DEF Grant, Finish, Awaited, Inserted, Keep, Fits
  <2>1. TypeOK'
      BY EstimatesAssumption, OverrunAssumption DEF TypeOK, CallStates, Jobs, Ops, Rows, Row
  <2>2. JobsFit'
      BY DEF JobsFit, TypeOK, Ops
  <2>3. RowsMatch'
      BY DEF RowsMatch, LedgerAgrees, TypeOK, Rows, JobsFit
  <2>4. LedgerAgrees'
      BY DEF LedgerAgrees, JobsFit, TypeOK, Rows
  <2> QED BY <2>1, <2>2, <2>3, <2>4
<1>7. ASSUME NEW r \in Requests, Refuse(r) PROVE IInv'
  <2> USE <1>7 DEF Refuse, Finish, Awaited
  <2>1. TypeOK'
      BY EstimatesAssumption, OverrunAssumption DEF TypeOK, CallStates, Jobs, Ops, Rows, Row
  <2>2. JobsFit'
      BY DEF JobsFit, TypeOK, Ops
  <2>3. RowsMatch'
      BY DEF RowsMatch, LedgerAgrees, TypeOK, Rows, JobsFit
  <2>4. LedgerAgrees'
      BY DEF LedgerAgrees, JobsFit, TypeOK, Rows
  <2> QED BY <2>1, <2>2, <2>3, <2>4
<1>8. ASSUME NEW r \in Requests, Reject(r) PROVE IInv'
  <2> USE <1>8 DEF Reject, Finish, Awaited
  <2>1. TypeOK'
      BY EstimatesAssumption, OverrunAssumption DEF TypeOK, CallStates, Jobs, Ops, Rows, Row
  <2>2. JobsFit'
      BY DEF JobsFit, TypeOK, Ops
  <2>3. RowsMatch'
      BY DEF RowsMatch, LedgerAgrees, TypeOK, Rows, JobsFit
  <2>4. LedgerAgrees'
      BY DEF LedgerAgrees, JobsFit, TypeOK, Rows
  <2> QED BY <2>1, <2>2, <2>3, <2>4
<1>9. ASSUME NEW r \in Requests, RunCommit(r) PROVE IInv'
  <2>1. call[r] \in {"committing", "unwinding", "releasing", "released", "gone"}
      BY <1>9 DEF RunCommit, JobsFit
  <2>2. /\ ask' = ask
        /\ call'[r] = IF call[r] = "committing" THEN "committed" ELSE call[r]
        /\ \A q \in Requests \ {r} : call'[q] = call[q]
      BY <1>9, <2>1 DEF RunCommit, Finish, Awaited, TypeOK
  <2>3. /\ Rows' = Rows
        /\ \A id \in Rows : table'[id] = IF id = r
                                        THEN [table[id] EXCEPT !.tokens = ask[r].actual,
                                                               !.state = "committed"]
                                        ELSE table[id]
      BY <1>9 DEF RunCommit, Rows
  <2>4. r \in Rows => /\ table'[r].key = table[r].key /\ table'[r].at = table[r].at
                      /\ table'[r].tokens = ask[r].actual /\ table'[r].state = "committed"
                      /\ table'[r] \in Row
      BY <2>3 DEF TypeOK, Row
  <2>5. \A id \in Rows \ {r} : table'[id] = table[id]
      BY <2>3
  <2>6. TypeOK'
    <3>1. \A id \in Rows' : table'[id] \in Row
        BY <2>3, <2>4, <2>5 DEF TypeOK
    <3>2. table' \in [Rows' -> Row]
        BY <1>9, <2>3, <3>1 DEF RunCommit
    <3>3. call' \in [Requests -> CallStates]
        BY <1>9 DEF RunCommit, Finish, TypeOK, CallStates
    <3> QED BY <1>9, <2>3, <3>2, <3>3 DEF RunCommit, Finish, TypeOK
  <2>7. JobsFit'
      BY <1>9 DEF RunCommit, Finish, Awaited, JobsFit, TypeOK, Ops
  <2>8. RowsMatch'
    <3>1. ASSUME NEW id \in Rows', id # r
          PROVE  /\ table'[id].key = ask'[id].key
                 /\ table'[id].at = ask'[id].at
                 /\ table'[id].tokens = IF table'[id].state = "reserved"
                                        THEN ask'[id].tokens ELSE ask'[id].actual
      <4>1. id \in Rows /\ table'[id] = table[id] /\ ask' = ask
          BY <2>2, <2>3, <2>5, <3>1
      <4> QED BY <4>1 DEF RowsMatch
    <3>2. ASSUME r \in Rows'
          PROVE  /\ table'[r].key = ask'[r].key
                 /\ table'[r].at = ask'[r].at
                 /\ table'[r].state # "reserved"
                 /\ table'[r].tokens = ask'[r].actual
      <4>1. r \in Rows /\ ask' = ask
          BY <2>2, <2>3, <3>2
      <4> QED BY <2>4, <4>1 DEF RowsMatch
    <3> QED BY <3>1, <3>2 DEF RowsMatch
  <2>9. LedgerAgrees'
      BY <2>1, <2>2, <2>3, <2>4, <2>5 DEF LedgerAgrees
  <2> QED BY <2>6, <2>7, <2>8, <2>9
<1>10. ASSUME NEW r \in Requests, RunRelease(r) PROVE IInv'
  <2> USE <1>10 DEF RunRelease, Finish, Awaited, Keep
  <2>1. TypeOK'
      BY EstimatesAssumption, OverrunAssumption DEF TypeOK, CallStates, Jobs, Ops, Rows, Row
  <2>2. JobsFit'
      BY DEF JobsFit, TypeOK, Ops
  <2>3. RowsMatch'
      BY DEF RowsMatch, LedgerAgrees, TypeOK, Rows, JobsFit
  <2>4. LedgerAgrees'
      BY DEF LedgerAgrees, JobsFit, TypeOK, Rows
  <2> QED BY <2>1, <2>2, <2>3, <2>4
<1>11. ASSUME NEW r \in Requests, NEW op \in Ops, FailJob(r, op) PROVE IInv'
  <2> USE <1>11 DEF FailJob, Finish, Awaited
  <2>1. TypeOK'
      BY EstimatesAssumption, OverrunAssumption DEF TypeOK, CallStates, Jobs, Ops, Rows, Row
  <2>2. JobsFit'
      BY DEF JobsFit, TypeOK, Ops
  <2>3. RowsMatch'
      BY DEF RowsMatch, LedgerAgrees, TypeOK, Rows, JobsFit
  <2>4. LedgerAgrees'
      BY DEF LedgerAgrees, JobsFit, TypeOK, Rows
  <2> QED BY <2>1, <2>2, <2>3, <2>4
<1>12. CASE Crash
    BY <1>12 DEF Crash, TypeOK, JobsFit, RowsMatch, LedgerAgrees, Rows, CallStates, Live
<1>13. CASE Tick
    BY <1>13 DEF Tick, TypeOK, JobsFit, RowsMatch, LedgerAgrees, Rows
<1>14. CASE UNCHANGED vars
    BY <1>14 DEF vars, TypeOK, JobsFit, RowsMatch, LedgerAgrees, Rows
<1> QED
    BY <1>1, <1>2, <1>3, <1>4, <1>5, <1>6, <1>7, <1>8, <1>9, <1>10, <1>11, <1>12, <1>13, <1>14
    DEF Next, RunJob

(* The database and the callers agree, on every run of any size.           *)
THEOREM LedgerCorrect == Spec => [](TypeOK /\ LedgerAgrees)
<1>1. IInv => TypeOK /\ LedgerAgrees
    BY DEF IInv
<1> QED BY <1>1, InvInit, InvStep, PTL DEF Spec

(* What makes it inductive: which jobs can be outstanding in which state   *)
(* of a call, and what a row holds (rate_limiter.py:202-221).              *)
THEOREM JobsAccountedFor == Spec => []IInv
BY InvInit, InvStep, PTL DEF Spec

(* What is on disk, in the pool and with the callers is well typed: no row *)
(* holds a negative number of tokens, whatever was asked for or billed.    *)
THEOREM LimiterTypes == Spec => []TypeOK
<1>1. IInv => TypeOK
    BY DEF IInv
<1> QED BY <1>1, JobsAccountedFor, PTL

----------------------------------------------------------------------------
(* A refusal that tells its client to come back.                           *)

(* A set of naturals has a least element.                                  *)
LEMMA NatOrder ==
    \E R : IsWellFoundedOn(R, Nat) /\ \A m, n \in Nat : m < n => <<m, n>> \in R
<1> DEFINE R == OpToRel(<, Nat)
<1>1. IsWellFoundedOn(R, Nat)
    BY NatLessThanWellFounded
<1>2. \A m, n \in Nat : <<m, n>> \in R <=> m < n
    BY DEF OpToRel
<1> HIDE DEF R
<1> QED BY <1>1, <1>2

LEMMA Least ==
    ASSUME NEW S, S \subseteq Nat, S # {}
    PROVE  \E n \in S : \A m \in S : n <= m
<1>1. PICK R : IsWellFoundedOn(R, Nat) /\ \A m, n \in Nat : m < n => <<m, n>> \in R
    BY NatOrder
<1>2. IsWellFoundedOn(R, Nat)
    BY <1>1
<1>3. \E n \in S : \A m \in S : ~(<<m, n>> \in R)
    BY <1>2, WFMin
<1>4. PICK n \in S : \A m \in S : ~(<<m, n>> \in R)
    BY <1>3
<1>5. n \in Nat /\ \A m \in S : m \in Nat
    OBVIOUS
<1>6. \A m \in S : ~(m < n)
    BY <1>1, <1>4, <1>5
<1>7. \A m \in S : n <= m
    BY <1>5, <1>6
<1> QED BY <1>7

(* The header names a moment at which the oldest row no longer counts.     *)
LEMMA HeaderOutlasts ==
    ASSUME TypeOK, NEW r \in Requests,
           Counted(table, ask[r].key, ask[r].at - Window) # {}
    PROVE  \E id \in Counted(table, ask[r].key, ask[r].at - Window) :
              /\ table[id].at < (ask[r].at + RetryHeader(r)) - Window
              /\ (ask[r].at + RetryHeader(r)) - Window \in Int
<1> DEFINE counted == Counted(table, ask[r].key, ask[r].at - Window)
           stamps == {table[id].at : id \in counted}
           oldest == CHOOSE at \in stamps : \A id \in counted : at <= table[id].at
<1>1. counted \subseteq Rows
    BY DEF Counted, Rows
<1>2. \A id \in counted : table[id].at \in Nat
    BY <1>1, ClockAssumption DEF TypeOK, Row, Time
<1>3. stamps \subseteq Nat /\ stamps # {}
    BY <1>2
<1> HIDE DEF counted
<1>4. PICK n \in stamps : \A m \in stamps : n <= m
    BY <1>3, Least
<1>5. n \in stamps /\ \A id \in counted : n <= table[id].at
    BY <1>4
<1>6. oldest \in stamps
    BY <1>5
<1> HIDE DEF oldest
<1>7. PICK id \in counted : table[id].at = oldest
    BY <1>6
<1>8. oldest \in Nat /\ ask[r].at \in Nat /\ Window \in Nat
    BY <1>2, <1>7, ClockAssumption, WindowAssumption DEF TypeOK, Time
<1>9. RetryHeader(r) = oldest + Window - ask[r].at + 1
    BY DEF RetryHeader, RetryAfter, counted, oldest
<1>10. /\ oldest < (ask[r].at + RetryHeader(r)) - Window
       /\ (ask[r].at + RetryHeader(r)) - Window \in Int
    BY <1>8, <1>9
<1> QED BY <1>7, <1>10 DEF counted

(* A client that waits out the header of its refusal is measured against   *)
(* fewer rows (rate_limiter.py:174-190, app.py's Retry-After).             *)
THEOREM WaitingHelps == Spec => []RetryHelps
<1>1. ASSUME TypeOK PROVE RetryHelps
  <2> DEFINE counted(r, at) == Counted(table, ask[r].key, at - Window)
  <2>1. SUFFICES ASSUME NEW r \in Requests, counted(r, ask[r].at) # {}
                 PROVE  counted(r, ask[r].at + RetryHeader(r)) # counted(r, ask[r].at)
      BY DEF RetryHelps
  <2>2. PICK id \in counted(r, ask[r].at) :
              /\ table[id].at < (ask[r].at + RetryHeader(r)) - Window
              /\ (ask[r].at + RetryHeader(r)) - Window \in Int
      BY <1>1, <2>1, HeaderOutlasts
  <2>3. id \in Rows /\ table[id].at \in Int
      BY <1>1, <2>2 DEF Counted, Rows, TypeOK, Row, Time
  <2>4. id \notin counted(r, ask[r].at + RetryHeader(r))
      BY <2>2, <2>3 DEF Counted
  <2> QED BY <2>2, <2>4
<1> QED BY <1>1, LimiterTypes, PTL

----------------------------------------------------------------------------
(* The window bound.                                                       *)

(* Whatever a table holds, its rows are finitely many and hold naturals.   *)
LEMMA TableFinite ==
    ASSUME TypeOK, NEW ids, ids \subseteq Rows
    PROVE  IsFiniteSet(ids) /\ \A id \in ids : table[id].tokens \in Nat /\ table[id].at \in Int
<1>1. IsFiniteSet(ids)
    BY RequestsAssumption, FS_Subset DEF TypeOK
<1>2. ASSUME NEW id \in ids PROVE table[id].tokens \in Nat /\ table[id].at \in Int
  <2>1. table[id] \in Row
      BY DEF TypeOK
  <2> QED BY <2>1 DEF Row, Time
<1> QED BY <1>1, <1>2

(* What is agreed of a row is no more than the row holds.                  *)
LEMMA AgreedTokens ==
    ASSUME NEW tab, NEW id \in DOMAIN tab, tab[id].tokens \in Int
    PROVE  /\ Agreed(tab)[id].tokens = Covered(tab[id])
           /\ Covered(tab[id]) \in Int /\ Covered(tab[id]) <= tab[id].tokens
BY OverrunAssumption DEF Agreed, Covered

(* Rows that only disappear, or shrink in place, keep every window.        *)
LEMMA WindowShrinks ==
    ASSUME TypeOK, WindowBound, NEW tab, DOMAIN tab \subseteq Rows,
           \A id \in DOMAIN tab : /\ tab[id].key = table[id].key
                                  /\ tab[id].at = table[id].at
                                  /\ tab[id].tokens \in Int
                                  /\ Covered(tab[id]) <= Covered(table[id]),
           NEW k \in Keys, NEW t \in Time
    PROVE  SumTokens(Agreed(tab), InWindow(tab, k, t)) <= Limit
<1> DEFINE old == InWindow(table, k, t)
           new == InWindow(tab, k, t)
<1>1. new \subseteq old /\ old \subseteq Rows
    BY DEF InWindow, Rows
<1>2. IsFiniteSet(old) /\ (\A id \in old : Agreed(table)[id].tokens = Covered(table[id])
                                           /\ Agreed(table)[id].tokens \in Int)
    BY <1>1, TableFinite, AgreedTokens DEF Rows
<1>3. \A id \in new : /\ Agreed(tab)[id].tokens \in Int
                      /\ Agreed(tab)[id].tokens <= Agreed(table)[id].tokens
  <2> SUFFICES ASSUME NEW id \in new
               PROVE  /\ Agreed(tab)[id].tokens \in Int
                      /\ Agreed(tab)[id].tokens <= Agreed(table)[id].tokens
      OBVIOUS
  <2>1. id \in DOMAIN tab /\ id \in old
      BY <1>1 DEF InWindow
  <2>2. Agreed(tab)[id].tokens = Covered(tab[id]) /\ Covered(tab[id]) \in Int
      BY <2>1, AgreedTokens
  <2> QED BY <2>1, <2>2, <1>2
<1>4. SumTokens(Agreed(tab), new) <= SumTokens(Agreed(table), old)
    BY <1>1, <1>2, <1>3, SumMonotone
<1>5. SumTokens(Agreed(table), old) <= Limit
    BY DEF WindowBound
<1>6. SumTokens(Agreed(table), old) \in Nat
    BY <1>2, UnitsFinite
<1>7. IsFiniteSet(new)
    BY <1>1, <1>2, FS_Subset
<1>8. SumTokens(Agreed(tab), new) \in Nat
    BY <1>3, <1>7, UnitsFinite
<1> QED BY <1>4, <1>5, <1>6, <1>8, LimitAssumption

(* A granted hold keeps every window.  A window that contains the new stamp*)
(* starts no earlier than the cutoff the check used, so all it holds was   *)
(* counted; the others lose rows at most.                                  *)
LEMMA GrantKeepsWindow ==
    ASSUME TypeOK, WindowBound, NEW r \in Requests, Grant(r)
    PROVE  WindowBound'
<1> DEFINE kept == {id \in Rows : table[id].at >= Cutoff(r)}
           at == ask[r].at
<1>1. /\ ask[r].tokens \in Nat /\ at \in Int /\ ask[r].key \in Keys
      /\ Cutoff(r) = at - Window /\ Window \in Nat
    BY WindowAssumption DEF TypeOK, Grant, Cutoff, Time
<1>2. /\ DOMAIN table' = kept \cup {r}
      /\ table'[r] = [key |-> ask[r].key, tokens |-> ask[r].tokens,
                      at |-> at, state |-> "reserved"]
      /\ \A id \in kept \ {r} : table'[id] = table[id]
    BY DEF Grant, Inserted, Keep
<1>3. /\ table'[r].key = ask[r].key /\ table'[r].tokens = ask[r].tokens /\ table'[r].at = at
      /\ Agreed(table')[r].tokens = ask[r].tokens
    BY <1>2 DEF Agreed, Covered
<1>7. ASSUME NEW id \in kept \ {r}
      PROVE  /\ Agreed(table')[id].tokens = Agreed(table)[id].tokens
             /\ Agreed(table)[id].tokens \in Int
             /\ Agreed(table)[id].tokens <= table[id].tokens
  <2>1. id \in Rows /\ table[id].tokens \in Int
      BY TableFinite
  <2> QED BY <1>2, <1>7, <2>1, AgreedTokens DEF Agreed, Rows
<1> SUFFICES ASSUME NEW k \in Keys, NEW t \in Time
             PROVE  SumTokens(Agreed(table'), InWindow(table', k, t)) <= Limit
    BY DEF WindowBound
<1>4. t \in Int
    BY DEF Time
<1>5. CASE k = ask[r].key /\ at \in t - Window .. t
  <2> DEFINE counted == Counted(table, k, at - Window)
             new == InWindow(table', k, t)
  <2>1. counted \subseteq Rows
      BY DEF Counted, Rows
  <2>2. IsFiniteSet(counted) /\ (\A id \in counted : table[id].tokens \in Nat)
      BY <2>1, TableFinite
  <2>3. ASSUME NEW id \in new, id # r
        PROVE  /\ id \in counted /\ Agreed(table')[id].tokens \in Int
               /\ Agreed(table')[id].tokens <= table[id].tokens
    <3>1. id \in kept /\ table'[id] = table[id]
        BY <1>2, <2>3 DEF InWindow
    <3>2. table[id].key = k /\ table[id].at \in t - Window .. t
        BY <2>3, <3>1 DEF InWindow
    <3>3. table[id].at >= at - Window
        BY <1>1, <1>4, <1>5, <3>2
    <3> QED BY <1>7, <2>3, <3>1, <3>2, <3>3 DEF Counted, Rows
  <2>4. Units(Agreed(table'), new) \subseteq Units(table, counted) \cup ({r} \X (1 .. ask[r].tokens))
    <3>1. ASSUME NEW id \in new, NEW u \in {id} \X (1 .. Agreed(table')[id].tokens)
          PROVE  u \in Units(table, counted) \cup ({r} \X (1 .. ask[r].tokens))
      <4>1. CASE id = r
          BY <1>3, <4>1
      <4>2. CASE id # r
        <5>1. id \in counted /\ u \in {id} \X (1 .. table[id].tokens)
            BY <2>2, <2>3, <3>1, <4>2
        <5> QED BY <5>1 DEF Units
      <4> QED BY <4>1, <4>2
    <3> QED BY <3>1 DEF Units
  <2>5. SumTokens(Agreed(table'), new) <= SumTokens(table, counted) + ask[r].tokens
    <3>1. \A id \in counted : table[id].tokens \in Int
        BY <2>2
    <3>2. Cardinality(Units(Agreed(table'), new)) <= SumTokens(table, counted) + ask[r].tokens
        BY <1>1, <2>2, <2>4, <3>1, SumInsert
    <3> QED BY <3>2 DEF SumTokens
  <2>6. SumTokens(table, counted) + ask[r].tokens <= Limit
      BY <1>5 DEF Grant, Fits, Used
  <2>7. SumTokens(table, counted) \in Nat
      BY <2>2, UnitsFinite
  <2>8. IsFiniteSet(Units(Agreed(table'), new))
    <3>1. IsFiniteSet(Units(table, counted))
        BY <2>2, UnitsFinite
    <3>2. IsFiniteSet({r}) /\ IsFiniteSet(1 .. ask[r].tokens)
      <4>1. IsFiniteSet({r})
          BY FS_Singleton
      <4>2. IsFiniteSet(1 .. ask[r].tokens)
          BY <1>1, FS_Interval
      <4> QED BY <4>1, <4>2
    <3>3. IsFiniteSet({r} \X (1 .. ask[r].tokens))
        BY <3>2, FS_Product
    <3>4. IsFiniteSet(Units(table, counted) \cup ({r} \X (1 .. ask[r].tokens)))
        BY <3>1, <3>3, FS_Union
    <3> QED BY <2>4, <3>4, FS_Subset
  <2>9. SumTokens(Agreed(table'), new) \in Nat
      BY <2>8, FS_CardinalityType DEF SumTokens
  <2> QED BY <1>1, <2>5, <2>6, <2>7, <2>9, LimitAssumption
<1>6. CASE ~(k = ask[r].key /\ at \in t - Window .. t)
  <2> DEFINE new == InWindow(table', k, t)
             old == InWindow(table, k, t)
  <2>1. ASSUME NEW id \in new
        PROVE  /\ id \in old /\ Agreed(table')[id].tokens = Agreed(table)[id].tokens
               /\ Agreed(table)[id].tokens \in Int
    <3>1. id # r
        BY <1>3, <1>6, <2>1 DEF InWindow
    <3>2. id \in kept /\ table'[id] = table[id]
        BY <1>2, <2>1, <3>1 DEF InWindow
    <3> QED BY <1>7, <2>1, <3>1, <3>2 DEF InWindow, Rows
  <2>2. old \subseteq Rows
      BY DEF InWindow, Rows
  <2>3. IsFiniteSet(old) /\ (\A id \in old : Agreed(table)[id].tokens \in Int)
      BY <2>2, TableFinite, AgreedTokens DEF Rows
  <2>4. \A id \in new : /\ Agreed(table')[id].tokens \in Int
                        /\ Agreed(table')[id].tokens <= Agreed(table)[id].tokens
      BY <2>1
  <2>5. new \subseteq old
      BY <2>1
  <2>6. SumTokens(Agreed(table'), new) <= SumTokens(Agreed(table), old)
      BY <2>3, <2>4, <2>5, SumMonotone
  <2>7. SumTokens(Agreed(table), old) <= Limit
      BY DEF WindowBound
  <2>8. SumTokens(Agreed(table), old) \in Nat /\ SumTokens(Agreed(table'), new) \in Nat
    <3>1. IsFiniteSet(new)
        BY <2>3, <2>5, FS_Subset
    <3> QED BY <2>3, <2>4, <3>1, UnitsFinite
  <2> QED BY <2>6, <2>7, <2>8, LimitAssumption
<1> QED BY <1>5, <1>6

LEMMA WindowStep ==
    ASSUME IInv, WindowBound, [Next]_vars
    PROVE  WindowBound'
<1> USE DEF IInv
<1>1. ASSUME NEW r \in Requests, RunCommit(r) PROVE WindowBound'
  <2>1. Rows' = Rows /\ \A id \in Rows \ {r} : table'[id] = table[id]
      BY <1>1 DEF RunCommit, Rows
  <2>2. ASSUME r \in Rows
        PROVE  /\ table'[r].key = table[r].key /\ table'[r].at = table[r].at
               /\ table'[r].tokens \in Int /\ Covered(table'[r]) <= Covered(table[r])
    <3>1. table[r] \in Row /\ ask[r].actual \in Nat /\ ask[r].tokens \in Int
        BY <2>2 DEF TypeOK
    <3>2. table'[r] = [table[r] EXCEPT !.tokens = ask[r].actual, !.state = "committed"]
        BY <1>1, <2>2 DEF RunCommit, Rows
    <3>3. /\ table'[r].key = table[r].key /\ table'[r].at = table[r].at
          /\ table'[r].tokens = ask[r].actual /\ table'[r].state = "committed"
        BY <3>1, <3>2 DEF Row
    <3>4. ask[r].actual <= ask[r].tokens + MaxOverrun
        BY <1>1 DEF RunCommit, JobsFit
    <3>5. table[r].tokens = IF table[r].state = "reserved" THEN ask[r].tokens
                                                           ELSE ask[r].actual
        BY <2>2 DEF RowsMatch
    <3>6. table[r].state \in {"reserved", "committed"}
        BY <3>1 DEF Row
    <3>7. Covered(table'[r]) = ask[r].actual - MaxOverrun
        BY <3>3 DEF Covered
    <3>8. CASE table[r].state = "reserved"
        BY <3>1, <3>3, <3>4, <3>5, <3>7, <3>8, OverrunAssumption DEF Covered
    <3>9. CASE table[r].state = "committed"
        BY <3>1, <3>3, <3>5, <3>7, <3>9, OverrunAssumption DEF Covered
    <3> QED BY <3>3, <3>6, <3>8, <3>9
  <2>3. \A id \in Rows : table[id].tokens \in Int /\ Covered(table[id]) <= Covered(table[id])
      BY TableFinite, OverrunAssumption DEF Covered
  <2> QED BY <2>1, <2>2, <2>3, WindowShrinks DEF WindowBound, Rows
<1>2. ASSUME NEW r \in Requests, RunRelease(r) PROVE WindowBound'
  <2>1. Rows' = Rows \ {r} /\ \A id \in Rows' : table'[id] = table[id]
      BY <1>2 DEF RunRelease, Keep, Rows
  <2>2. \A id \in Rows : table[id].tokens \in Int /\ Covered(table[id]) <= Covered(table[id])
      BY TableFinite, OverrunAssumption DEF Covered
  <2> QED BY <2>1, <2>2, WindowShrinks DEF WindowBound, Rows
<1>3. ASSUME NEW r \in Requests, Grant(r) PROVE WindowBound'
    BY <1>3, GrantKeepsWindow
<1>4. CASE UNCHANGED table
    BY <1>4 DEF WindowBound, InWindow, SumTokens, Units, Agreed, Covered
<1>5. ASSUME NEW r \in Requests, NEW op \in Ops, RunJob(r, op) PROVE WindowBound'
    BY <1>1, <1>2, <1>3, <1>4, <1>5 DEF RunJob, Refuse, Reject, FailJob
<1>6. ASSUME Next PROVE WindowBound'
    BY <1>4, <1>5, <1>6 DEF Next, CallReserve, CallCommit, CallRelease, Cancel, StartJob, Crash, Tick
<1> QED BY <1>4, <1>6 DEF vars

(* WindowBound, for any number of requests, tenants and workers, any clock *)
(* adjustment and any crash: the budget holds in every window, but for the *)
(* overrun of the bills in it (rate_limiter.py:156-221).                   *)
THEOREM WindowNeverExceeded == Spec => []WindowBound
<1>1. Init => WindowBound
  <2> SUFFICES ASSUME Init, NEW k \in Keys, NEW t \in Time
               PROVE  SumTokens(Agreed(table), InWindow(table, k, t)) <= Limit
      BY DEF WindowBound
  <2>1. InWindow(table, k, t) = {}
      BY DEF Init, InWindow
  <2>2. Units(Agreed(table), {}) = {}
      BY DEF Units
  <2> QED BY <2>1, <2>2, FS_EmptySet, LimitAssumption DEF SumTokens
<1>2. IInv /\ WindowBound /\ [Next]_vars => WindowBound'
    BY WindowStep
<1> QED BY <1>1, <1>2, InvInit, InvStep, PTL DEF Spec

----------------------------------------------------------------------------
(* Holds are not lost.                                                     *)

(* With a clock that only advances, no stamp lies in the future.           *)
StampsPast == \A r \in Requests : ask[r].at <= now

LEMMA StampsPastStep ==
    ASSUME MaxStepBack = 0, TypeOK, StampsPast, [Next]_vars
    PROVE  StampsPast'
<1>1. now \in Int /\ (\A r \in Requests : ask[r].at \in Int) /\ DOMAIN ask = Requests
    BY DEF TypeOK, Time
<1>2. CASE UNCHANGED <<ask, now>>
    BY <1>2 DEF StampsPast
<1>3. ASSUME NEW r \in Requests, CallReserve(r) PROVE StampsPast'
  <2>1. ask'[r].at = now /\ now' = now /\ \A q \in Requests \ {r} : ask'[q] = ask[q]
      BY <1>1, <1>3 DEF CallReserve
  <2> QED BY <1>1, <2>1 DEF StampsPast
<1>4. ASSUME NEW r \in Requests, CallCommit(r) PROVE StampsPast'
  <2>1. PICK actual : ask' = [ask EXCEPT ![r].actual = actual]
      BY <1>4 DEF CallCommit
  <2>2. ask'[r] = [ask[r] EXCEPT !.actual = actual]
        /\ \A q \in Requests \ {r} : ask'[q] = ask[q]
      BY <1>1, <2>1
  <2>3. ask'[r].at = ask[r].at
      BY <2>2 DEF TypeOK
  <2>4. now' = now
      BY <1>4 DEF CallCommit
  <2> QED BY <2>2, <2>3, <2>4 DEF StampsPast
<1>5. CASE Tick
  <2>1. now' \in Int /\ now' >= now /\ ask' = ask
      BY <1>1, <1>5 DEF Tick, Time
  <2> QED BY <1>1, <2>1 DEF StampsPast
<1>6. ASSUME Next PROVE StampsPast'
    BY <1>2, <1>3, <1>4, <1>5, <1>6
    DEF Next, CallRelease, Cancel, StartJob, RunJob, Crash,
        Grant, Refuse, Reject, RunCommit, RunRelease, FailJob, Finish
<1> QED BY <1>2, <1>6 DEF vars

(* HoldsSurvive, the step behind it.                                       *)
LEMMA HoldStep ==
    ASSUME TypeOK, StampsPast, Next, NEW id \in Rows, id \notin Rows'
    PROVE  <<id, "release">> \in running \/ table[id].at < now - Window
<1>1. PICK r \in Requests : Grant(r) \/ RunRelease(r)
  <2>1. table' # table
      BY DEF Rows
  <2>2. ~ (\E r \in Requests : RunCommit(r))
      BY DEF RunCommit, Rows
  <2> QED BY <2>1, <2>2
          DEF Next, CallReserve, CallCommit, CallRelease, Cancel, StartJob, RunJob,
              Refuse, Reject, FailJob, Crash, Tick
<1>2. CASE Grant(r)
  <2>1. ~ (table[id].at >= Cutoff(r))
      BY <1>2 DEF Grant, Inserted, Keep, Rows
  <2>2. table[id].at \in Int
      BY TableFinite
  <2>3. ask[r].at \in Int /\ now \in Int /\ ask[r].at <= now
      BY DEF TypeOK, Time, StampsPast
  <2> QED BY <2>1, <2>2, <2>3, WindowAssumption DEF Cutoff
<1>3. CASE RunRelease(r)
    BY <1>3 DEF RunRelease, Keep, Rows
<1> QED BY <1>1, <1>2, <1>3

(* A hold that still counts is never lost to another request's eviction.   *)
THEOREM HoldsNeverLost == MaxStepBack = 0 => (Spec => HoldsSurvive)
<1> SUFFICES ASSUME MaxStepBack = 0 PROVE Spec => HoldsSurvive
    OBVIOUS
<1>1. Init => StampsPast
    BY DEF Init, NoAsk, StampsPast
<1>2. IInv /\ StampsPast /\ [Next]_vars => StampsPast'
    BY StampsPastStep DEF IInv
<1>3. IInv /\ StampsPast /\ [Next]_vars =>
        [\A id \in Rows : id \notin Rows' =>
            <<id, "release">> \in running \/ table[id].at < now - Window]_vars
    BY HoldStep DEF IInv
<1> QED BY <1>1, <1>2, <1>3, InvInit, InvStep, PTL DEF Spec, HoldsSurvive

----------------------------------------------------------------------------
(* The table implements TokenBudget.                                       *)

LEMMA GrantedOnceStep ==
    ASSUME IInv, GrantedOnce, [Next]_vars
    PROVE  GrantedOnce'
<1> USE DEF IInv
<1>1. ASSUME NEW r \in Requests, CallReserve(r) PROVE GrantedOnce'
    BY <1>1 DEF CallReserve, GrantedOnce, LedgerAgrees, Rows
<1>2. ASSUME NEW r \in Requests, Grant(r) PROVE GrantedOnce'
  <2>1. <<r, "reserve">> \notin queued' \cup running'
      BY <1>2 DEF Grant, Finish, JobsFit
  <2>2. Rows' \subseteq Rows \cup {r}
      BY <1>2 DEF Grant, Inserted, Keep, Rows
  <2>3. queued' \cup running' \subseteq queued \cup running
      BY <1>2 DEF Grant, Finish
  <2> QED BY <2>1, <2>2, <2>3 DEF GrantedOnce
<1>3. ASSUME NEW r \in Requests, NEW op \in Ops, StartJob(r, op) PROVE GrantedOnce'
    BY <1>3 DEF StartJob, GrantedOnce, Rows
<1>4. ASSUME NEW r \in Requests, CallCommit(r) \/ CallRelease(r) PROVE GrantedOnce'
    BY <1>4 DEF CallCommit, CallRelease, GrantedOnce, Rows
<1>5. CASE /\ queued' \subseteq queued /\ running' \subseteq running
           /\ Rows' \subseteq Rows
    BY <1>5 DEF GrantedOnce
<1>6. ASSUME NEW r \in Requests,
             Cancel(r) \/ Refuse(r) \/ Reject(r) \/ RunCommit(r) \/ RunRelease(r)
               \/ \E op \in Ops : FailJob(r, op)
      PROVE  GrantedOnce'
    BY <1>5, <1>6
    DEF Cancel, Refuse, Reject, RunCommit, RunRelease, FailJob, Finish, Keep, Rows
<1>7. CASE Crash \/ Tick \/ UNCHANGED vars
    BY <1>5, <1>7 DEF Crash, Tick, vars, Rows
<1> QED BY <1>1, <1>2, <1>3, <1>4, <1>6, <1>7 DEF Next, RunJob

(* No reservation is granted twice, nor to a call that has given up while  *)
(* its job waits: a row appears only as its one reserve job ends.          *)
THEOREM ReservedOnce == Spec => []GrantedOnce
<1>1. Init => GrantedOnce
    BY DEF Init, GrantedOnce
<1>2. IInv /\ GrantedOnce /\ [Next]_vars => GrantedOnce'
    BY GrantedOnceStep
<1> QED BY <1>1, <1>2, InvInit, InvStep, PTL DEF Spec

(* The cardinality the instance brings is the one of this module.          *)
LEMMA SameCardinality == ASSUME NEW S PROVE Budget!Cardinality(S) = Cardinality(S)
BY DEF Cardinality, Budget!Cardinality

(* A step of the limiter is a step of the budget, or leaves it alone.      *)
LEMMA BudgetStep ==
    ASSUME IInv, GrantedOnce, WindowBound, [Next]_vars
    PROVE  [Budget!Next]_table
<1> USE DEF IInv
<1>1. ASSUME NEW r \in Requests, Grant(r) PROVE Budget!Admit(r)
  <2>1. WindowBound'
      BY <1>1, GrantKeepsWindow
  <2>2. Budget!Within(table')
    <3>1. ASSUME NEW k \in Keys, NEW t \in Time
          PROVE  Budget!Held(table', InWindow(table', k, t)) <= Limit
      <4> DEFINE ids == InWindow(table', k, t)
      <4>1. \A id \in ids : Budget!Covered(table'[id]) = Agreed(table')[id].tokens
          BY DEF InWindow, Agreed, Covered, Budget!Covered
      <4>2. UNION {{id} \X (1 .. Budget!Covered(table'[id])) : id \in ids}
              = Units(Agreed(table'), ids)
          BY <4>1 DEF Units
      <4>3. SumTokens(Agreed(table'), ids) <= Limit
          BY <2>1 DEF WindowBound
      <4> QED BY <4>2, <4>3, SameCardinality DEF Budget!Held, SumTokens
    <3> QED BY <3>1 DEF Budget!Within, InWindow
  <2>3. r \notin Rows
      BY <1>1 DEF Grant, GrantedOnce
  <2>4. /\ DOMAIN table' = {id \in Rows : table[id].at >= Cutoff(r)} \cup {r}
        /\ table'[r] = [key |-> ask[r].key, tokens |-> ask[r].tokens,
                        at |-> ask[r].at, state |-> "reserved"]
        /\ \A id \in DOMAIN table' \ {r} : table'[id] = table[id]
      BY <1>1 DEF Grant, Inserted, Keep
  <2>5. table'[r].state = "reserved" /\ table'[r].at = ask[r].at
      BY <2>4
  <2>6. \A id \in Rows \ DOMAIN table' : table[id].at < table'[r].at - Window
    <3>1. \A id \in Rows : table[id].at \in Int
        BY TableFinite
    <3>2. ask[r].at \in Int
        BY DEF TypeOK, Time
    <3> QED BY <2>4, <2>5, <3>1, <3>2, WindowAssumption DEF Cutoff
  <2> QED BY <2>2, <2>3, <2>4, <2>5, <2>6 DEF Budget!Admit, Budget!Charges, Rows
<1>2. ASSUME NEW r \in Requests, RunCommit(r), table' # table PROVE Budget!Settle(r)
  <2>1. Rows' = Rows /\ \A id \in Rows \ {r} : table'[id] = table[id]
      BY <1>2 DEF RunCommit, Rows
  <2>2. r \in Rows
    <3> SUFFICES ASSUME r \notin Rows PROVE table' = table
        BY <1>2
    <3>1. table' = [id \in Rows |-> table[id]]
        BY <1>2 DEF RunCommit
    <3> QED BY <3>1 DEF TypeOK
  <2>3. table[r] \in Row /\ ask[r].actual \in Nat /\ ask[r].tokens \in Int
      BY <2>2 DEF TypeOK
  <2>4. table'[r] = [table[r] EXCEPT !.tokens = ask[r].actual, !.state = "committed"]
      BY <1>2, <2>2 DEF RunCommit, Rows
  <2>5. /\ table'[r].key = table[r].key /\ table'[r].at = table[r].at
        /\ table'[r].tokens = ask[r].actual /\ table'[r].state = "committed"
      BY <2>3, <2>4 DEF Row
  <2>6. table[r].tokens = IF table[r].state = "reserved" THEN ask[r].tokens
                                                         ELSE ask[r].actual
      BY <2>2 DEF RowsMatch
  <2>7. table[r].state = "reserved"
    <3> SUFFICES ASSUME table[r].state # "reserved" PROVE table' = table
        BY <1>2
    <3>1. table[r].state = "committed" /\ table[r].tokens = ask[r].actual
        BY <2>3, <2>6 DEF Row
    <3>2. table'[r] = table[r]
        BY <2>3, <2>4, <3>1 DEF Row
    <3>3. DOMAIN table' = DOMAIN table
        BY <2>1 DEF Rows
    <3>4. \A id \in DOMAIN table : table'[id] = table[id]
        BY <2>1, <3>2 DEF Rows
    <3>5. table = [id \in Rows |-> table[id]] /\ table' = [id \in Rows |-> table'[id]]
        BY <1>2 DEF TypeOK, RunCommit
    <3> QED BY <3>3, <3>4, <3>5 DEF Rows
  <2>8. ask[r].actual <= table[r].tokens + MaxOverrun
    <3>1. ask[r].actual <= ask[r].tokens + MaxOverrun
        BY <1>2 DEF RunCommit, JobsFit
    <3> QED BY <2>6, <2>7, <3>1
  <2> QED BY <2>1, <2>2, <2>5, <2>7, <2>8 DEF Budget!Settle, Budget!Charges, Rows
<1>3. ASSUME NEW r \in Requests, RunRelease(r), table' # table PROVE Budget!GiveBack(r)
  <2>1. r \in Rows
    <3> SUFFICES ASSUME r \notin Rows PROVE table' = table
        BY <1>3
    <3>1. table' = [id \in Rows |-> table[id]]
        BY <1>3 DEF RunRelease, Keep
    <3> QED BY <3>1 DEF TypeOK
  <2> QED BY <1>3, <2>1 DEF RunRelease, Keep, Budget!GiveBack, Budget!Charges, Rows
<1>4. ASSUME NEW r \in Requests, NEW op \in Ops, RunJob(r, op)
      PROVE  [Budget!Next]_table
    BY <1>1, <1>2, <1>3, <1>4 DEF RunJob, Refuse, Reject, FailJob, Budget!Next
<1>5. ASSUME Next PROVE [Budget!Next]_table
    BY <1>4, <1>5 DEF Next, CallReserve, CallCommit, CallRelease, Cancel, StartJob, Crash, Tick
<1> QED BY <1>5 DEF vars

(* The limiter implements TokenBudget, whatever the bills are.             *)
THEOREM ImplementsBudget == Spec => KeepsBudget
<1>1. Init => Budget!Init
    BY DEF Init, Budget!Init
<1>4. IInv /\ GrantedOnce /\ WindowBound /\ [Next]_vars => [Budget!Next]_table
    BY BudgetStep
<1>5. Spec => []WindowBound
    BY WindowNeverExceeded
<1> QED BY <1>1, <1>4, <1>5, ReservedOnce, InvInit, InvStep, PTL
        DEF Spec, KeepsBudget, Budget!Spec
=============================================================================
