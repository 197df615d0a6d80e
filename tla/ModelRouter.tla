---------------------------- MODULE ModelRouter ----------------------------
(***************************************************************************)
(* ModelRouter.route of task4_router/router.py, composed with the budget it*)
(* reserves from (RateLimiter) and the circuit breaker it consults         *)
(* (CircuitBreaker).                                                       *)
(*                                                                         *)
(* A coroutine runs without interruption from one await to the next, so the*)
(* actions below are what route does between two awaits: from a resumed    *)
(* reserve() to the first provider call, from a provider's outcome to the  *)
(* next call, to commit() or to the release() in the finally.  Each takes  *)
(* the steps of the limiter and of the breaker that the code takes there.  *)
(* Between two awaits anything else may happen: the other requests, the    *)
(* jobs in the thread pool, time, a cancellation, the end of the process.  *)
(***************************************************************************)
EXTENDS Integers, FiniteSets, Sequences

CONSTANTS
    Requests, Keys, Limit, Window, Estimates, MaxOverrun, Workers, MaxTime,
    MaxStepBack,                                 \* see RateLimiter
    Threshold, RecoveryTime, AttemptTimeout,     \* see CircuitBreaker
    TotalDeadline,   \* total_deadline_s, or NoDeadline
    MaxCancels       \* bound on the cancellations of a run

ASSUME RouterAssumption ==
    /\ IsFiniteSet(Requests) /\ Keys # {} /\ Estimates \subseteq Int
    /\ {Limit, Window, MaxOverrun, MaxStepBack, MaxCancels} \subseteq Nat
    /\ {Workers, MaxTime, Threshold} \subseteq Nat \ {0}
    /\ {RecoveryTime, AttemptTimeout} \subseteq Nat
    /\ TotalDeadline \in Int

VARIABLES
    table, call, ask, queued, running, now,      \* see RateLimiter
    failures, since, probeInFlight, dial, age,   \* see CircuitBreaker
    pc,         \* where each request's route() is suspended
    attempts,   \* its attempt records
    reply,      \* what it returns or raises, once that is decided
    left,       \* time until the current attempt is cut off
    spent,      \* monotonic() - started, counted to one past TotalDeadline and
                \* no longer once no attempt can follow
    cancels     \* cancellations so far

L == INSTANCE RateLimiter
B == INSTANCE CircuitBreaker

limiter == <<table, call, ask, queued, running, now>>
breaker == <<failures, since, probeInFlight, dial, age>>
route == <<pc, attempts, reply, left, spent>>
vars == <<limiter, breaker, route, cancels>>

NoDeadline == -1

Stages == {"start", "reserve", "primary", "secondary", "commit", "release", "done"}
Outcomes == {"success", "client_error", "retryable_error", "timeout",
             "circuit_open", "deadline_exhausted"}
GatewayErrors == {"RATE_LIMITED", "UPSTREAM_ERROR", "UPSTREAM_TIMEOUT",
                  "ALL_PROVIDERS_FAILED"}
Replies == {"none", "ok", "cancelled", "INTERNAL_ERROR", "lost"} \cup GatewayErrors

Record(provider, outcome) == [provider |-> provider, outcome |-> outcome]

Smaller(m, n) == IF m < n THEN m ELSE n

(* _remaining_budget.                                                      *)
Remaining(r) ==
    IF TotalDeadline = NoDeadline THEN AttemptTimeout ELSE TotalDeadline - spent[r]

(* Mutation of FailureCode: any timeout makes the route a timeout.         *)
FailureCodeAny(records) ==
    IF \E i \in DOMAIN records : records[i].outcome \in {"timeout", "deadline_exhausted"}
    THEN "UPSTREAM_TIMEOUT" ELSE "ALL_PROVIDERS_FAILED"

(* Mutation of FailureCode: the last outcome, not yet a code of an error.  *)
FailureCodeLast(records) == records[Len(records)].outcome

(* The code of a route whose every candidate failed.                       *)
FailureCode(records) ==
    IF \A i \in DOMAIN records : records[i].outcome \in {"timeout", "deadline_exhausted"}
    THEN "UPSTREAM_TIMEOUT" ELSE "ALL_PROVIDERS_FAILED"

----------------------------------------------------------------------------
(* What a step between two awaits ends in.                                 *)

GoTo(r, stage) == pc' = [pc EXCEPT ![r] = stage]
Decide(r, code) == reply' = [reply EXCEPT ![r] = code]

(* Mutation of Dial: every attempt gets a fresh deadline.                  *)
DialFresh(r, provider, records) ==
    /\ Remaining(r) > 0
    /\ GoTo(r, provider)
    /\ attempts' = [attempts EXCEPT ![r] = records]
    /\ left' = [left EXCEPT ![r] = AttemptTimeout]
    /\ UNCHANGED <<limiter, reply>>

(* Awaiting a provider, for min(attempt_timeout_s, remaining) at most.     *)
Dial(r, provider, records) ==
    /\ Remaining(r) > 0
    /\ GoTo(r, provider)
    /\ attempts' = [attempts EXCEPT ![r] = records]
    /\ left' = [left EXCEPT ![r] = Smaller(AttemptTimeout, Remaining(r))]
    /\ UNCHANGED <<limiter, reply>>

(* An error raised inside the try: the finally awaits release().           *)
RaiseAndRelease(r, code, records) ==
    /\ GoTo(r, "release")
    /\ Decide(r, code)
    /\ attempts' = [attempts EXCEPT ![r] = records]
    /\ left' = [left EXCEPT ![r] = 0]
    /\ L!CallRelease(r)

(* The loop reaches a candidate with nothing left of the deadline.         *)
Exhaust(r, provider, records) ==
    /\ Remaining(r) <= 0
    /\ LET all == Append(records, Record(provider, "deadline_exhausted"))
       IN  RaiseAndRelease(r, FailureCode(all), all)

(* The loop goes on to the secondary.                                      *)
TrySecondary(r, records) ==
    \/ Dial(r, "secondary", records)
    \/ Exhaust(r, "secondary", records)

----------------------------------------------------------------------------
Init ==
    /\ L!Init
    /\ \/ failures = 0 /\ since = B!None
       \/ failures = Threshold /\ since \in {0, RecoveryTime}   \* by earlier traffic
    /\ probeInFlight = FALSE
    /\ dial = [r \in Requests |-> "none"]
    /\ age = [r \in Requests |-> 0]
    /\ pc = [r \in Requests |-> "start"]
    /\ attempts = [r \in Requests |-> <<>>]
    /\ reply = [r \in Requests |-> "none"]
    /\ left = [r \in Requests |-> 0]
    /\ spent = [r \in Requests |-> 0]
    /\ cancels = 0

(* route() begins: the budget is asked for the estimate.                   *)
Arrive(r) ==
    /\ pc[r] = "start"
    /\ L!CallReserve(r)
    /\ GoTo(r, "reserve")
    /\ UNCHANGED <<breaker, attempts, reply, left, spent, cancels>>

(* reserve() raised: over budget, or the database failed.                  *)
NotReserved(r) ==
    /\ pc[r] = "reserve"
    /\ call[r] \in {"refused", "gone"}
    /\ GoTo(r, "done")
    /\ Decide(r, IF call[r] = "refused" THEN "RATE_LIMITED" ELSE "INTERNAL_ERROR")
    /\ UNCHANGED <<limiter, breaker, attempts, left, spent, cancels>>

(* Mutation of AdmitUndialled: the break forgets the probe slot.           *)
AdmitUndialledKeepsSlot(r) == B!TakeSlot /\ UNCHANGED <<dial, age>>

(* Admitted to the primary with nothing left of the deadline: never dialled*)
(* so the slot it may have taken goes back.                                *)
AdmitUndialled(r) == B!Allows /\ B!AbandonProbe /\ UNCHANGED <<dial, age>>

(* reserve() returned: the breaker is asked, and the first candidate tried.*)
Reserved(r) ==
    /\ pc[r] = "reserve"
    /\ call[r] = "held"
    /\ \/ /\ B!Admit(r)
          /\ Dial(r, "primary", <<>>)
       \/ /\ AdmitUndialled(r)
          /\ Exhaust(r, "primary", <<>>)
       \/ /\ ~B!Allows
          /\ UNCHANGED breaker
          /\ TrySecondary(r, <<Record("primary", "circuit_open")>>)
    /\ UNCHANGED <<spent, cancels>>

(* The verdict of an attempt on the primary.                               *)
Report(r, outcome) ==
    IF outcome \in {"success", "client_error"} THEN B!Succeed(r) ELSE B!Fail(r)

(* An attempt ends.  wait_for's timeout comes when nothing is left of it;  *)
(* whatever the provider answers comes no later.                           *)
Attempted(r, outcome) ==
    LET records == Append(attempts[r], Record(pc[r], outcome)) IN
    /\ pc[r] \in {"primary", "secondary"}
    /\ outcome = "timeout" => left[r] = 0
    /\ IF pc[r] = "primary" THEN Report(r, outcome) ELSE UNCHANGED breaker
    /\ CASE outcome = "success" ->
              /\ L!CallCommit(r)
              /\ GoTo(r, "commit")
              /\ attempts' = [attempts EXCEPT ![r] = records]
              /\ left' = [left EXCEPT ![r] = 0]
              /\ UNCHANGED reply
         [] outcome = "client_error" -> RaiseAndRelease(r, "UPSTREAM_ERROR", records)
         [] OTHER ->
              IF pc[r] = "primary" THEN TrySecondary(r, records)
              ELSE RaiseAndRelease(r, FailureCode(records), records)
    /\ UNCHANGED <<spent, cancels>>

(* Mutation of Committed: the answer goes out while commit() still runs.   *)
CommittedEarly(r) ==
    /\ pc[r] = "commit"
    /\ call[r] \in {"committing", "committed"}
    /\ GoTo(r, "done")
    /\ Decide(r, "ok")
    /\ UNCHANGED <<limiter, breaker, attempts, left, spent, cancels>>

(* commit() returned.                                                      *)
Committed(r) ==
    /\ pc[r] = "commit"
    /\ call[r] = "committed"
    /\ GoTo(r, "done")
    /\ Decide(r, "ok")
    /\ UNCHANGED <<limiter, breaker, attempts, left, spent, cancels>>

(* commit() raised, or was cancelled: not committed, so the finally.       *)
NotCommitted(r) ==
    /\ pc[r] = "commit"
    /\ call[r] = "unwinding"
    /\ RaiseAndRelease(r, IF reply[r] = "none" THEN "INTERNAL_ERROR" ELSE reply[r],
                       attempts[r])
    /\ UNCHANGED <<breaker, spent, cancels>>

(* Mutation of Released: an error of release() is waited out, not raised.  *)
ReleasedOnly(r) ==
    /\ pc[r] = "release"
    /\ call[r] = "released"
    /\ GoTo(r, "done")
    /\ UNCHANGED <<limiter, breaker, attempts, reply, left, spent, cancels>>

(* The finally is through; if release() raised, its error is what is left. *)
Released(r) ==
    /\ pc[r] = "release"
    /\ call[r] \in {"released", "gone"}
    /\ GoTo(r, "done")
    /\ Decide(r, IF call[r] = "gone" THEN "INTERNAL_ERROR" ELSE reply[r])
    /\ UNCHANGED <<limiter, breaker, attempts, left, spent, cancels>>

(* The task is cancelled at the await it is suspended on.  Only reserve()  *)
(* is outside the try, and only a cancelled release() has no finally left. *)
CancelRoute(r) ==
    /\ cancels < MaxCancels
    /\ cancels' = cancels + 1
    /\ \/ /\ pc[r] = "reserve" \/ pc[r] = "release"
          /\ L!Cancel(r)
          /\ GoTo(r, "done")
          /\ Decide(r, "cancelled")
          /\ UNCHANGED <<breaker, attempts, left>>
       \/ /\ pc[r] = "primary"
          /\ B!Abandon(r)
          /\ RaiseAndRelease(r, "cancelled", attempts[r])
       \/ /\ pc[r] = "secondary"
          /\ UNCHANGED breaker
          /\ RaiseAndRelease(r, "cancelled", attempts[r])
       \/ /\ pc[r] = "commit"
          /\ L!Cancel(r)
          /\ Decide(r, "cancelled")
          /\ UNCHANGED <<breaker, pc, attempts, left>>
    /\ UNCHANGED spent

(* A job in the thread pool, see RateLimiter.                              *)
Work(r, op) ==
    /\ L!StartJob(r, op) \/ L!RunJob(r, op)
    /\ UNCHANGED <<breaker, route, cancels>>

(* Monotonic time: the breaker's, the attempts' and the routes'.           *)
TimePasses ==
    /\ \A r \in Requests : pc[r] \in {"primary", "secondary"} => left[r] > 0
    /\ B!TimePasses
    /\ left' = [r \in Requests |-> IF left[r] > 0 THEN left[r] - 1 ELSE 0]
    /\ spent' = [r \in Requests |->
                   IF pc[r] \notin {"reserve", "primary", "secondary"} THEN 0
                   ELSE IF spent[r] > TotalDeadline THEN spent[r] ELSE spent[r] + 1]
    /\ UNCHANGED <<limiter, pc, attempts, reply, cancels>>

(* The wall clock, which only the budget reads.                            *)
WallClock == L!Tick /\ UNCHANGED <<breaker, route, cancels>>

(* The process dies and is started again: the rows survive, the breaker is *)
(* a new one, the requests that were in it are lost.                       *)
Crash ==
    /\ L!Crash
    /\ failures' = 0 /\ since' = B!None /\ probeInFlight' = FALSE
    /\ dial' = [r \in Requests |-> "none"]
    /\ age' = [r \in Requests |-> 0]
    /\ pc' = [r \in Requests |-> IF pc[r] = "start" THEN "start" ELSE "done"]
    /\ reply' = [r \in Requests |->
                   IF pc[r] \in {"start", "done"} THEN reply[r] ELSE "lost"]
    /\ left' = [r \in Requests |-> 0]
    /\ UNCHANGED <<attempts, spent, cancels>>

Resume(r) ==
    \/ NotReserved(r) \/ Reserved(r) \/ Committed(r) \/ NotCommitted(r) \/ Released(r)
    \/ \E outcome \in Outcomes \ {"circuit_open", "deadline_exhausted"} : Attempted(r, outcome)

Next ==
    \/ \E r \in Requests : Arrive(r) \/ Resume(r) \/ CancelRoute(r)
    \/ \E r \in Requests, op \in L!Ops : Work(r, op)
    \/ TimePasses
    \/ WallClock
    \/ Crash

Spec == Init /\ [][Next]_vars

----------------------------------------------------------------------------
(* Properties.                                                             *)

TypeOK ==
    /\ L!TypeOK
    /\ B!TypeOK
    /\ pc \in [Requests -> Stages]
    /\ \A r \in Requests :
          /\ Len(attempts[r]) <= 2
          /\ \A i \in DOMAIN attempts[r] :
                attempts[r][i] \in [provider : {"primary", "secondary"}, outcome : Outcomes]
    /\ reply \in [Requests -> Replies]
    /\ left \in [Requests -> 0 .. AttemptTimeout]
    /\ spent \in [Requests -> Nat]
    /\ cancels \in 0 .. MaxCancels

Returned(r) == pc[r] = "done"
OutcomesIn(records) == {records[i].outcome : i \in DOMAIN records}
Pending(r) == \E op \in L!Ops : <<r, op>> \in queued \cup running

(* The tenant's ledger and the answer agree: a request answered with a     *)
(* completion is committed at what it cost; one answered with an error of  *)
(* the gateway holds nothing, so an outage of the providers never eats the *)
(* budget.  Both stay so, whatever jobs are still in the pool.             *)
ChargedIffAnswered ==
    \A r \in Requests : Returned(r) =>
        /\ reply[r] = "ok" /\ r \in L!Rows =>
              table[r].state = "committed" /\ table[r].tokens = ask[r].actual
        /\ reply[r] \in GatewayErrors => r \notin L!Rows

(* The answer follows from the attempts: a completion from the last one; a *)
(* client error stops the route where it happened; a timeout is reported   *)
(* only if time is all that went wrong; a refused request dialled nobody.  *)
Explained(code, records) ==
    LET outcomes == OutcomesIn(records) IN
    /\ code = "ok" <=> "success" \in outcomes
    /\ code = "UPSTREAM_ERROR" <=> "client_error" \in outcomes
    /\ code = "UPSTREAM_TIMEOUT" <=>
          records # <<>> /\ outcomes \subseteq {"timeout", "deadline_exhausted"}
    /\ code = "RATE_LIMITED" <=> records = <<>>
    /\ \A i \in DOMAIN records :
          i < Len(records) => records[i].outcome \in {"circuit_open", "timeout", "retryable_error"}

AnswerExplained ==
    \A r \in Requests : Returned(r) /\ reply[r] \in {"ok"} \cup GatewayErrors =>
        Explained(reply[r], attempts[r])

(* No provider is awaited past the total deadline, the fallback included.  *)
AttemptsCapped ==
    TotalDeadline # NoDeadline =>
        \A r \in Requests :
            pc[r] \in {"primary", "secondary"} => spent[r] + left[r] <= TotalDeadline

(* The breaker's slot survives the whole route: while it is taken, some    *)
(* request is at the primary with it, through cancellation, a deadline that*)
(* runs out before the dial, and every outcome.                            *)
SlotInRoute ==
    probeInFlight => \E r \in Requests : pc[r] = "primary" /\ dial[r] = "probe"

(* "A reservation that never became a billable call is given back": once a *)
(* cancelled request has no job left, it holds nothing.                    *)
CancelledGivesBack ==
    \A r \in Requests :
        Returned(r) /\ reply[r] = "cancelled" /\ ~Pending(r) => r \notin L!Rows

=============================================================================
