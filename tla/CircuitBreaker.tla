--------------------------- MODULE CircuitBreaker ---------------------------
(***************************************************************************)
(* The circuit breaker of task4_router/router.py and the requests that use *)
(* it.  Its methods run on the event loop without suspending, so each is   *)
(* one step; what interleaves is the attempts.  A request asks             *)
(* allows_request(), is away at the primary for a while, and reports       *)
(* record_success(), record_failure() or abandon_probe() when it is back,  *)
(* by which time the breaker may be in another state than the one that let *)
(* it through.                                                             *)
(*                                                                         *)
(* Time is monotonic() in whole units.  An attempt is cut off after        *)
(* AttemptTimeout units (asyncio.wait_for), so time does not pass an       *)
(* attempt's deadline while the attempt is still out.                      *)
(***************************************************************************)
EXTENDS Integers, FiniteSets

CONSTANTS
    Requests,         \* coroutines that send one request after another
    Threshold,        \* failure_threshold
    RecoveryTime,     \* recovery_time_s
    AttemptTimeout    \* attempt_timeout_s

ASSUME ThresholdAssumption == Threshold \in Nat \ {0}
ASSUME TimesAssumption == RecoveryTime \in Nat /\ AttemptTimeout \in Nat

VARIABLES
    failures,        \* consecutive_failures, counted up to Threshold
    since,           \* monotonic() - opened_at, counted up to RecoveryTime
    probeInFlight,   \* _probe_in_flight
    dial,            \* what each request is at the primary as, if it is there
    age              \* how long its attempt has been out

breaker == <<failures, since, probeInFlight>>
attempt == <<dial, age>>
vars == <<failures, since, probeInFlight, dial, age>>

(* The value of since while opened_at is None.                             *)
None == -1

Dials == {"none", "normal", "probe"}

----------------------------------------------------------------------------
(* The methods.                                                            *)

State == IF since = None THEN "closed"
         ELSE IF since >= RecoveryTime THEN "half_open" ELSE "open"

(* Mutation of Allows: a half-open breaker lets every request through.     *)
AllowsAny == State # "open"

Allows == State = "closed" \/ (State = "half_open" /\ ~probeInFlight)

(* Mutation of TakeSlot: the slot is never marked as taken.                *)
TakeSlotUnmarked ==
    /\ Allows
    /\ UNCHANGED <<failures, since, probeInFlight>>

(* allows_request() that returned True: a half-open breaker's slot is taken*)
TakeSlot ==
    /\ Allows
    /\ probeInFlight' = (probeInFlight \/ State = "half_open")
    /\ UNCHANGED <<failures, since>>

(* Mutation of AbandonProbe: a cancelled probe keeps the slot.             *)
AbandonNothing == UNCHANGED <<failures, since, probeInFlight>>

AbandonProbe ==
    /\ probeInFlight' = FALSE
    /\ UNCHANGED <<failures, since>>

RecordSuccess ==
    /\ failures' = 0
    /\ since' = None
    /\ probeInFlight' = FALSE

(* A failure at or past the threshold stamps opened_at anew.               *)
RecordFailure ==
    /\ failures' = IF failures < Threshold THEN failures + 1 ELSE Threshold
    /\ probeInFlight' = FALSE
    /\ since' = IF failures + 1 >= Threshold THEN 0 ELSE since

----------------------------------------------------------------------------
Init ==
    /\ failures = 0
    /\ since = None
    /\ probeInFlight = FALSE
    /\ dial = [r \in Requests |-> "none"]
    /\ age = [r \in Requests |-> 0]

Leave(r) ==
    /\ dial[r] # "none"
    /\ dial' = [dial EXCEPT ![r] = "none"]
    /\ age' = [age EXCEPT ![r] = 0]

Admit(r) ==
    /\ dial[r] = "none"
    /\ TakeSlot
    /\ dial' = [dial EXCEPT ![r] = IF State = "closed" THEN "normal" ELSE "probe"]
    /\ UNCHANGED age

(* Mutation of Succeed: an answer that the breaker is not told of.         *)
SucceedUnrecorded(r) == Leave(r) /\ UNCHANGED <<failures, since, probeInFlight>>

(* "success" and "client_error": the primary answered.                     *)
Succeed(r) == Leave(r) /\ RecordSuccess

(* "timeout" and "retryable_error".                                        *)
Fail(r) == Leave(r) /\ RecordFailure

(* CancelledError inside the attempt: no verdict on the primary.           *)
Abandon(r) == Leave(r) /\ AbandonProbe

(* Mutation of TimePasses: no wait_for, an attempt is never cut off.       *)
TimePassesUncut ==
    /\ age' = [r \in Requests |-> IF dial[r] = "none" THEN 0 ELSE age[r] + 1]
    /\ since' = IF since # None /\ since < RecoveryTime THEN since + 1 ELSE since
    /\ UNCHANGED <<failures, probeInFlight, dial>>

(* Time passes for the breaker and for every attempt that is out, up to the*)
(* first deadline.                                                         *)
TimePasses ==
    /\ \A r \in Requests : dial[r] # "none" => age[r] < AttemptTimeout
    /\ age' = [r \in Requests |-> IF dial[r] = "none" THEN 0 ELSE age[r] + 1]
    /\ since' = IF since # None /\ since < RecoveryTime THEN since + 1 ELSE since
    /\ UNCHANGED <<failures, probeInFlight, dial>>

Return(r) == Succeed(r) \/ Fail(r) \/ Abandon(r)

Next ==
    \/ \E r \in Requests : Admit(r) \/ Succeed(r) \/ Fail(r) \/ Abandon(r)
    \/ TimePasses

Spec == Init /\ [][Next]_vars

(* Every attempt comes back (wait_for cuts it off), time passes, and the   *)
(* clients, who are not part of the program, keep sending requests.        *)
Fairness ==
    /\ \A r \in Requests : WF_vars(Return(r))
    /\ WF_vars(TimePasses)
    /\ WF_vars(\E r \in Requests : Admit(r))

FairSpec == Spec /\ Fairness

----------------------------------------------------------------------------
(* Properties.                                                             *)

Probes == {r \in Requests : dial[r] = "probe"}
Away == {r \in Requests : dial[r] # "none"}

TypeOK ==
    /\ failures \in 0 .. Threshold
    /\ since \in None .. RecoveryTime
    /\ probeInFlight \in BOOLEAN
    /\ dial \in [Requests -> Dials]
    /\ age \in [Requests -> 0 .. AttemptTimeout]

(* The probe slot is never leaked: while it is taken, a probe is out that  *)
(* will give it back, and the breaker is not closed.  A slot nobody holds  *)
(* would keep a healthy primary skipped for the life of the process.       *)
SlotOwned == probeInFlight => since # None /\ Probes # {}

(* opened_at and the failure count agree: the breaker is open exactly when *)
(* the threshold was reached and no attempt has succeeded since.           *)
OpenByCount == since # None <=> failures = Threshold

(* With attempts shorter than the recovery time, a probe is the only       *)
(* request at the primary and it holds the slot, so its verdict alone      *)
(* decides what the half-open breaker does next.                           *)
ProbeAlone ==
    \A r \in Probes : probeInFlight /\ State = "half_open" /\ Away = {r}

(* A request admitted before the breaker opened has been away for at least *)
(* as long as the breaker has been open: the invariant behind ProbeAlone.  *)
StragglersAge == \A r \in Requests : dial[r] = "normal" => age[r] >= since

Shape == TypeOK /\ OpenByCount /\ SlotOwned /\ StragglersAge

IInv == Shape /\ ProbeAlone

(* "the primary is skipped entirely for recovery_time_s".                  *)
StaysOpen == [][State = "open" => State' # "closed"]_vars

(* Once attempts stop failing and stop being cancelled, the breaker closes *)
(* for good.                                                               *)
ClosesOnceHealthy ==
    <>[][\A r \in Requests : ~Fail(r) /\ ~Abandon(r)]_vars => <>[](State = "closed")

(* A taken probe slot is always given back.                                *)
SlotReturned == probeInFlight ~> ~probeInFlight
=============================================================================
