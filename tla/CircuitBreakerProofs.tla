------------------------ MODULE CircuitBreakerProofs ------------------------
(* What CircuitBreaker promises for any number of requests, any threshold  *)
(* and any times.                                                          *)
EXTENDS CircuitBreaker, FiniteSetTheorems, TLAPS

USE ThresholdAssumption, TimesAssumption DEF None

(* One request is back from the primary and the others have not moved.     *)
LEMMA LeaveEffect ==
    ASSUME TypeOK, NEW r \in Requests, Leave(r)
    PROVE  /\ dial[r] # "none" /\ dial'[r] = "none" /\ age'[r] = 0
           /\ \A q \in Requests \ {r} : dial'[q] = dial[q] /\ age'[q] = age[q]
           /\ dial' \in [Requests -> Dials]
           /\ age' \in [Requests -> 0 .. AttemptTimeout]
<1>1. /\ dial' = [dial EXCEPT ![r] = "none"] /\ dial \in [Requests -> Dials]
      /\ age' = [age EXCEPT ![r] = 0] /\ age \in [Requests -> 0 .. AttemptTimeout]
    BY DEF TypeOK, Leave
<1>2. dial' \in [Requests -> Dials] /\ age' \in [Requests -> 0 .. AttemptTimeout]
    BY <1>1 DEF Dials
<1>3. dial'[r] = "none" /\ age'[r] = 0
    BY <1>1
<1>4. \A q \in Requests \ {r} : dial'[q] = dial[q] /\ age'[q] = age[q]
    BY <1>1
<1> QED BY <1>2, <1>3, <1>4 DEF Leave

LEMMA ShapeInit == Init => Shape
<1> SUFFICES ASSUME Init PROVE Shape
    OBVIOUS
<1>1. TypeOK
  <2>1. failures \in 0 .. Threshold /\ since \in None .. RecoveryTime
      BY DEF Init
  <2>2. probeInFlight \in BOOLEAN
      BY DEF Init
  <2>3. dial \in [Requests -> Dials] /\ age \in [Requests -> 0 .. AttemptTimeout]
      BY DEF Init, Dials
  <2> QED BY <2>1, <2>2, <2>3 DEF TypeOK
<1>2. OpenByCount
    BY DEF Init, OpenByCount
<1>3. SlotOwned
    BY DEF Init, SlotOwned
<1>4. StragglersAge
    BY DEF Init, StragglersAge
<1> QED BY <1>1, <1>2, <1>3, <1>4 DEF Shape

(* A closed breaker's slot is free, so taking the slot of one that admits  *)
(* leaves it taken exactly when the breaker is half-open.                  *)
LEMMA SlotTaken ==
    ASSUME Shape, TakeSlot
    PROVE  probeInFlight' = (State = "half_open") /\ State \in {"closed", "half_open"}
<1>1. probeInFlight \in BOOLEAN /\ probeInFlight' = (probeInFlight \/ State = "half_open")
    BY DEF Shape, TypeOK, TakeSlot
<1>2. State \in {"closed", "half_open"}
    BY DEF TakeSlot, Allows
<1>3. State = "closed" => probeInFlight = FALSE
  <2>1. State = "closed" => since = None
      BY DEF State
  <2> QED BY <2>1, <1>1 DEF Shape, SlotOwned
<1>4. State = "half_open" => probeInFlight = FALSE
    BY <1>1 DEF TakeSlot, Allows
<1>5. CASE State = "closed"
    BY <1>1, <1>3, <1>5
<1>6. CASE State = "half_open"
    BY <1>1, <1>4, <1>6
<1> QED BY <1>2, <1>5, <1>6

LEMMA ShapeStep == Shape /\ [Next]_vars => Shape'
<1> SUFFICES ASSUME Shape, [Next]_vars PROVE Shape'
    OBVIOUS
<1> USE DEF Shape
<1>1. ASSUME NEW r \in Requests, Admit(r) PROVE Shape'
  <2>1. /\ dial' = [dial EXCEPT ![r] = IF State = "closed" THEN "normal" ELSE "probe"]
        /\ age' = age /\ UNCHANGED <<failures, since>>
        /\ probeInFlight' = (State = "half_open")
        /\ dial[r] = "none" /\ State \in {"closed", "half_open"}
      BY <1>1, SlotTaken DEF Admit, TakeSlot
  <2>2. TypeOK'
      BY <2>1 DEF TypeOK, Dials
  <2>3. SlotOwned'
      BY <2>1 DEF SlotOwned, State, Probes, TypeOK
  <2>4. StragglersAge'
      BY <2>1 DEF StragglersAge, State, TypeOK
  <2> QED BY <2>1, <2>2, <2>3, <2>4 DEF OpenByCount
<1>2. ASSUME NEW r \in Requests, Succeed(r) PROVE Shape'
  <2>1. /\ dial' \in [Requests -> Dials] /\ age' \in [Requests -> 0 .. AttemptTimeout]
        /\ failures' = 0 /\ since' = None /\ probeInFlight' = FALSE
      BY <1>2, LeaveEffect DEF Succeed, RecordSuccess
  <2>2. TypeOK'
    <3>1. failures' \in 0 .. Threshold /\ since' \in None .. RecoveryTime
        BY <2>1
    <3>2. probeInFlight' \in BOOLEAN
        BY <2>1
    <3> QED BY <2>1, <3>1, <3>2 DEF TypeOK
  <2>3. OpenByCount'
      BY <2>1 DEF OpenByCount
  <2>4. SlotOwned'
      BY <2>1 DEF SlotOwned
  <2>5. StragglersAge'
      BY <2>1 DEF StragglersAge
  <2> QED BY <2>2, <2>3, <2>4, <2>5
<1>3. ASSUME NEW r \in Requests, Fail(r) PROVE Shape'
  <2> DEFINE ages == 0 .. AttemptTimeout
  <2>0. /\ dial' \in [Requests -> Dials] /\ age' \in [Requests -> ages] /\ dial'[r] = "none"
        /\ \A q \in Requests \ {r} : dial'[q] = dial[q] /\ age'[q] = age[q]
      BY <1>3, LeaveEffect DEF Fail
  <2>1. TypeOK' /\ OpenByCount' /\ SlotOwned'
    <3>1. TypeOK'
      <4>1. failures' \in 0 .. Threshold /\ since' \in None .. RecoveryTime
          BY <1>3 DEF Fail, RecordFailure, TypeOK
      <4>2. probeInFlight' \in BOOLEAN
          BY <1>3 DEF Fail, RecordFailure
      <4> QED BY <2>0, <4>1, <4>2 DEF TypeOK
    <3>2. OpenByCount'
        BY <1>3 DEF Fail, RecordFailure, TypeOK, OpenByCount
    <3>3. SlotOwned'
        BY <1>3 DEF Fail, RecordFailure, SlotOwned
    <3> QED BY <3>1, <3>2, <3>3
  <2>2. StragglersAge'
    <3>1. CASE since' = 0
      <4>1. \A q \in Requests : age'[q] >= 0
          BY <2>0
      <4> QED BY <3>1, <4>1 DEF StragglersAge
    <3>2. CASE since' = since
      <4>1. \A q \in Requests : dial'[q] = "normal" => q # r
          BY <2>0
      <4> QED BY <2>0, <3>2, <4>1 DEF StragglersAge
    <3> QED BY <1>3, <3>1, <3>2 DEF Fail, RecordFailure
  <2> QED BY <2>1, <2>2
<1>4. ASSUME NEW r \in Requests, Abandon(r) PROVE Shape'
    BY <1>4, LeaveEffect
    DEF Abandon, AbandonProbe, TypeOK, OpenByCount, SlotOwned, StragglersAge
<1>5. CASE TimePasses
  <2>1. TypeOK'
      BY <1>5 DEF TimePasses, TypeOK
  <2>2. StragglersAge'
      BY <1>5 DEF TimePasses, TypeOK, StragglersAge
  <2>3. since' = None <=> since = None
      BY <1>5 DEF TimePasses, TypeOK
  <2>4. failures' = failures /\ probeInFlight' = probeInFlight /\ dial' = dial
      BY <1>5 DEF TimePasses
  <2>5. OpenByCount'
      BY <2>3, <2>4 DEF OpenByCount
  <2>6. SlotOwned'
      BY <2>3, <2>4 DEF SlotOwned, Probes
  <2> QED BY <2>1, <2>2, <2>5, <2>6
<1>6. CASE UNCHANGED vars
    BY <1>6 DEF vars, TypeOK, OpenByCount, SlotOwned, StragglersAge, Probes
<1> QED BY <1>1, <1>2, <1>3, <1>4, <1>5, <1>6 DEF Next

(* The probe slot cannot leak: it is only ever taken while a probe is out. *)
THEOREM SlotNeverLeaks == Spec => [](TypeOK /\ OpenByCount /\ SlotOwned)
<1>1. Shape => TypeOK /\ OpenByCount /\ SlotOwned
    BY DEF Shape
<1> QED BY <1>1, ShapeInit, ShapeStep, PTL DEF Spec

(* The streak, the stamp and the ages of the attempts stay in range: an    *)
(* attempt is never away longer than its timeout.                          *)
THEOREM BreakerTypes == Spec => []TypeOK
BY SlotNeverLeaks, PTL

----------------------------------------------------------------------------
(* No request admitted while the breaker was closed is still away when it  *)
(* turns half-open, so a request that takes the slot is alone.             *)
LEMMA HalfOpenEmpty ==
    ASSUME AttemptTimeout < RecoveryTime, IInv, State = "half_open", ~probeInFlight
    PROVE  Away = {}
<1> SUFFICES ASSUME NEW q \in Requests, dial[q] # "none" PROVE FALSE
    BY DEF Away
<1>1. CASE dial[q] = "normal"
  <2>1. age[q] >= since /\ since >= RecoveryTime
      BY <1>1 DEF IInv, Shape, StragglersAge, State
  <2> QED BY <2>1 DEF IInv, Shape, TypeOK
<1>2. CASE dial[q] = "probe"
    BY <1>2 DEF IInv, ProbeAlone, Probes
<1> QED BY <1>1, <1>2 DEF IInv, Shape, TypeOK, Dials

LEMMA ProbeStep ==
    ASSUME AttemptTimeout < RecoveryTime, IInv, [Next]_vars
    PROVE  ProbeAlone'
<1>1. ASSUME NEW r \in Requests, Admit(r) PROVE ProbeAlone'
  <2>1. /\ dial' = [dial EXCEPT ![r] = IF State = "closed" THEN "normal" ELSE "probe"]
        /\ UNCHANGED <<failures, since>> /\ dial \in [Requests -> Dials]
        /\ probeInFlight' = (State = "half_open")
      BY <1>1, SlotTaken DEF Admit, TakeSlot, IInv, Shape, TypeOK
  <2>2. CASE State = "closed"
      BY <2>1, <2>2 DEF IInv, ProbeAlone, Probes
  <2>3. CASE State = "half_open" /\ ~probeInFlight
    <3>1. Away = {}
        BY <2>3, HalfOpenEmpty
    <3>2. Probes' = {r} /\ Away' = {r}
        BY <2>1, <2>3, <3>1 DEF Probes, Away
    <3>3. State' = "half_open"
        BY <2>1, <2>3 DEF State
    <3> QED BY <2>1, <2>3, <3>2, <3>3 DEF ProbeAlone
  <2> QED BY <1>1, <2>2, <2>3 DEF Admit, TakeSlot, Allows
<1>2. ASSUME NEW r \in Requests, Leave(r) PROVE ProbeAlone'
  <2>1. \A q \in Requests : dial'[q] = "probe" => q \in Probes /\ q # r
      BY <1>2, LeaveEffect DEF IInv, Shape, Probes
  <2>2. r \in Away
      BY <1>2 DEF Leave, Away
  <2>3. \A q \in Requests : dial'[q] # "probe"
      BY <2>1, <2>2 DEF IInv, ProbeAlone
  <2> QED BY <2>3 DEF ProbeAlone, Probes
<1>3. CASE TimePasses
  <2>1. dial' = dial /\ probeInFlight' = probeInFlight
      BY <1>3 DEF TimePasses
  <2>2. State = "half_open" => State' = "half_open"
      BY <1>3 DEF TimePasses, State, IInv, Shape, TypeOK
  <2> QED BY <2>1, <2>2 DEF IInv, ProbeAlone, Probes, Away
<1>4. CASE UNCHANGED vars
    BY <1>4 DEF vars, IInv, ProbeAlone, Probes, Away, State
<1> QED BY <1>1, <1>2, <1>3, <1>4 DEF Next, Succeed, Fail, Abandon

(* The breaker's state, the dialled attempts and their ages fit together,  *)
(* where attempts are shorter than the recovery time (router.py:55-117).   *)
THEOREM BreakerFits == AttemptTimeout < RecoveryTime => (Spec => []IInv)
<1> SUFFICES ASSUME AttemptTimeout < RecoveryTime PROVE Spec => []IInv
    OBVIOUS
<1>1. Init => IInv
    BY ShapeInit DEF Init, IInv, ProbeAlone, Probes
<1>2. IInv /\ [Next]_vars => IInv'
    BY ShapeStep, ProbeStep DEF IInv
<1> QED BY <1>1, <1>2, PTL DEF Spec

(* Where attempts are shorter than the recovery time, as by default, a     *)
(* probe is alone at the primary while it is out.                          *)
THEOREM ProbeDecidesAlone == AttemptTimeout < RecoveryTime => (Spec => []ProbeAlone)
<1>1. IInv => ProbeAlone
    BY DEF IInv
<1> QED BY <1>1, BreakerFits, PTL
=============================================================================
