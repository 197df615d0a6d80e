------------------------- MODULE ModelRouterProofs -------------------------
(* What ModelRouter promises for any number of requests, any limit, clock, *)
(* threshold, deadline and number of cancellations.                        *)
EXTENDS ModelRouter, SequenceTheorems, TLAPS

(* The theorems of the limiter, about the same variables.                  *)
LP == INSTANCE RateLimiterProofs

----------------------------------------------------------------------------
(* L and LP are two instances of one module: their operators agree.        *)

LEMMA SameInvariant == L!IInv <=> LP!IInv
<1>1. L!TypeOK <=> LP!TypeOK
    BY DEF L!TypeOK, LP!TypeOK, L!Rows, LP!Rows, L!Row, LP!Row, L!Time, LP!Time,
           L!CallStates, LP!CallStates, L!Jobs, LP!Jobs, L!Ops, LP!Ops
<1>2. L!JobsFit <=> LP!JobsFit
    BY DEF L!JobsFit, LP!JobsFit
<1>3. L!RowsMatch <=> LP!RowsMatch
    BY DEF L!RowsMatch, LP!RowsMatch, L!Rows, LP!Rows
<1>4. L!LedgerAgrees <=> LP!LedgerAgrees
    BY DEF L!LedgerAgrees, LP!LedgerAgrees, L!Rows, LP!Rows
<1> QED BY <1>1, <1>2, <1>3, <1>4 DEF L!IInv, LP!IInv

LEMMA SameInvariantNext == L!IInv' <=> LP!IInv'
<1>1. L!TypeOK' <=> LP!TypeOK'
    BY DEF L!TypeOK, LP!TypeOK, L!Rows, LP!Rows, L!Row, LP!Row, L!Time, LP!Time,
           L!CallStates, LP!CallStates, L!Jobs, LP!Jobs, L!Ops, LP!Ops
<1>2. L!JobsFit' <=> LP!JobsFit'
    BY DEF L!JobsFit, LP!JobsFit
<1>3. L!RowsMatch' <=> LP!RowsMatch'
    BY DEF L!RowsMatch, LP!RowsMatch, L!Rows, LP!Rows
<1>4. L!LedgerAgrees' <=> LP!LedgerAgrees'
    BY DEF L!LedgerAgrees, LP!LedgerAgrees, L!Rows, LP!Rows
<1> QED BY <1>1, <1>2, <1>3, <1>4 DEF L!IInv, LP!IInv

LEMMA SameFits == ASSUME NEW r PROVE L!Fits(r) <=> LP!Fits(r)
BY DEF L!Fits, LP!Fits, L!Used, LP!Used, L!SumTokens, LP!SumTokens, L!Units, LP!Units,
       L!Counted, LP!Counted, L!Cardinality, LP!Cardinality

LEMMA SameJobs ==
    ASSUME NEW r, NEW op
    PROVE  (L!StartJob(r, op) <=> LP!StartJob(r, op)) /\ (L!RunJob(r, op) <=> LP!RunJob(r, op))
<1>1. L!StartJob(r, op) <=> LP!StartJob(r, op)
    BY DEF L!StartJob, LP!StartJob, L!Cardinality, LP!Cardinality
<1>2. \A o, result : L!Finish(r, o, result) <=> LP!Finish(r, o, result)
    BY DEF L!Finish, LP!Finish, L!Awaited, LP!Awaited
<1>3. L!Grant(r) <=> LP!Grant(r)
    BY <1>2, SameFits DEF L!Grant, LP!Grant, L!Inserted, LP!Inserted, L!Keep, LP!Keep,
       L!Cutoff, LP!Cutoff, L!Rows, LP!Rows
<1>4. L!Refuse(r) <=> LP!Refuse(r)
    BY <1>2, SameFits DEF L!Refuse, LP!Refuse
<1>5. L!Reject(r) <=> LP!Reject(r)
    BY <1>2 DEF L!Reject, LP!Reject
<1>6. L!RunCommit(r) <=> LP!RunCommit(r)
    BY <1>2 DEF L!RunCommit, LP!RunCommit, L!Rows, LP!Rows
<1>7. L!RunRelease(r) <=> LP!RunRelease(r)
    BY <1>2 DEF L!RunRelease, LP!RunRelease, L!Rows, LP!Rows, L!Keep, LP!Keep
<1>8. L!FailJob(r, op) <=> LP!FailJob(r, op)
    BY <1>2 DEF L!FailJob, LP!FailJob
<1>9. L!RunJob(r, op) <=> LP!RunJob(r, op)
    BY <1>3, <1>4, <1>5, <1>6, <1>7, <1>8 DEF L!RunJob, LP!RunJob
<1> QED BY <1>1, <1>9

LEMMA SameCalls ==
    ASSUME NEW r
    PROVE  /\ L!CallReserve(r) <=> LP!CallReserve(r)
           /\ L!CallCommit(r) <=> LP!CallCommit(r)
           /\ L!CallRelease(r) <=> LP!CallRelease(r)
           /\ L!Cancel(r) <=> LP!Cancel(r)
<1>1. L!CallReserve(r) <=> LP!CallReserve(r)
    BY DEF L!CallReserve, LP!CallReserve
<1>2. L!CallCommit(r) <=> LP!CallCommit(r)
    BY DEF L!CallCommit, LP!CallCommit
<1>3. L!CallRelease(r) <=> LP!CallRelease(r)
    BY DEF L!CallRelease, LP!CallRelease
<1>4. L!Cancel(r) <=> LP!Cancel(r)
    BY DEF L!Cancel, LP!Cancel, L!Ops, LP!Ops, L!Awaited, LP!Awaited
<1> QED BY <1>1, <1>2, <1>3, <1>4

LEMMA SameStep == [L!Next]_limiter <=> [LP!Next]_(LP!vars)
<1>1. L!Crash <=> LP!Crash
    BY DEF L!Crash, LP!Crash, L!Live, LP!Live
<1>2. L!Tick <=> LP!Tick
    BY DEF L!Tick, LP!Tick, L!Time, LP!Time
<1>3. L!Next <=> LP!Next
    BY <1>1, <1>2, SameJobs, SameCalls DEF L!Next, LP!Next, L!Ops, LP!Ops
<1> QED BY <1>3 DEF limiter, LP!vars

(* What the limiter's invariant says holds in the router as well.          *)
LEMMA LimiterStep == L!IInv /\ [L!Next]_limiter => L!IInv'
<1>1. LP!IInv /\ [LP!Next]_(LP!vars) => LP!IInv'
    BY LP!InvStep, RouterAssumption DEF LP!InvStep, IsFiniteSet, LP!IsFiniteSet
<1> QED BY <1>1, SameStep, SameInvariant, SameInvariantNext

LEMMA LimiterInit == L!Init => L!IInv
<1>1. LP!Init => LP!IInv
    BY LP!InvInit, RouterAssumption DEF LP!InvInit, IsFiniteSet, LP!IsFiniteSet
<1>2. L!Init => LP!Init
    BY DEF L!Init, LP!Init, L!NoAsk, LP!NoAsk
<1> QED BY <1>1, <1>2, SameInvariant

(* What the steps of the limiter do to the calls.                          *)
Others(f, g, r) == \A q \in Requests \ {r} : g[q] = f[q]

LEMMA CallSteps ==
    ASSUME L!IInv, NEW r \in Requests
    PROVE  /\ L!CallReserve(r) => /\ call[r] = "idle"
                                  /\ call'[r] = "reserving" /\ Others(call, call', r)
           /\ L!CallCommit(r) => /\ call[r] = "held"
                                 /\ call'[r] = "committing" /\ Others(call, call', r)
           /\ L!CallRelease(r) => /\ call[r] \in {"held", "unwinding"}
                                  /\ call'[r] = "releasing" /\ Others(call, call', r)
           /\ L!Cancel(r) => /\ call[r] \in {"reserving", "committing", "releasing"}
                             /\ call'[r] = IF call[r] = "committing" THEN "unwinding" ELSE "gone"
                             /\ Others(call, call', r)
<1>1. call \in [Requests -> L!CallStates]
    BY DEF L!IInv, L!TypeOK
<1>2. L!Cancel(r) => call[r] \in {"reserving", "committing", "releasing"}
    BY DEF L!Cancel, L!Awaited, L!Ops
<1> QED BY <1>1, <1>2 DEF L!CallReserve, L!CallCommit, L!CallRelease, L!Cancel, Others

(* Where the job of a call may leave it.                                   *)
Settled(from) == CASE from = "reserving" -> {"held", "refused", "gone"}
                   [] from = "committing" -> {"committed", "unwinding"}
                   [] from = "releasing" -> {"released", "gone"}
                   [] OTHER -> {from}

LEMMA JobSteps ==
    ASSUME L!IInv, NEW r \in Requests, NEW op \in L!Ops, L!StartJob(r, op) \/ L!RunJob(r, op)
    PROVE  \A q \in Requests : call'[q] = call[q] \/ call'[q] \in Settled(call[q])
<1>1. call \in [Requests -> L!CallStates]
    BY DEF L!IInv, L!TypeOK
<1>2. CASE L!StartJob(r, op)
    BY <1>2 DEF L!StartJob
<1>3. CASE L!RunJob(r, op)
  <2>1. PICK result : L!Finish(r, op, result) /\
            \/ op = "reserve" /\ result \in {"held", "refused", "gone"}
            \/ op = "commit" /\ result \in {"committed", "unwinding"}
            \/ op = "release" /\ result \in {"released", "gone"}
      BY <1>3 DEF L!RunJob, L!Grant, L!Refuse, L!Reject, L!RunCommit, L!RunRelease,
                  L!FailJob, L!Ops
  <2>2. CASE <<call[r], op>> \notin L!Awaited
      BY <2>1, <2>2 DEF L!Finish
  <2>3. CASE <<call[r], op>> \in L!Awaited
    <3>1. call' = [call EXCEPT ![r] = result]
        BY <2>1, <2>3 DEF L!Finish
    <3>2. result \in Settled(call[r])
        BY <2>1, <2>3 DEF L!Awaited, Settled
    <3> QED BY <1>1, <3>1, <3>2
  <2> QED BY <2>2, <2>3
<1> QED BY <1>2, <1>3

----------------------------------------------------------------------------
(* The outcomes of a route and the code they explain.                      *)

Records == [provider : {"primary", "secondary"}, outcome : Outcomes]

(* The outcomes after which the route goes on.                             *)
Passed == {"circuit_open", "timeout", "retryable_error"}

LEMMA AppendOutcomes ==
    ASSUME NEW s \in Seq(Records), NEW a \in Records
    PROVE  /\ Append(s, a) \in Seq(Records) /\ Len(Append(s, a)) = Len(s) + 1
           /\ Append(s, a) # <<>>
           /\ OutcomesIn(Append(s, a)) = OutcomesIn(s) \cup {a.outcome}
           /\ \A i \in DOMAIN Append(s, a) :
                 i < Len(Append(s, a)) => Append(s, a)[i].outcome \in OutcomesIn(s)
<1> DEFINE t == Append(s, a)
<1>1. /\ t \in Seq(Records) /\ Len(t) = Len(s) + 1 /\ t # <<>> /\ Len(s) \in Nat
      /\ \A i \in 1 .. Len(s) : t[i] = s[i]
      /\ t[Len(s) + 1] = a
      /\ DOMAIN t = 1 .. Len(s) + 1 /\ DOMAIN s = 1 .. Len(s)
    BY AppendProperties
<1> HIDE DEF t
<1>2. OutcomesIn(t) = OutcomesIn(s) \cup {a.outcome}
  <2>1. ASSUME NEW o PROVE o \in OutcomesIn(t) <=> o \in OutcomesIn(s) \cup {a.outcome}
    <3>1. (\E i \in 1 .. Len(s) + 1 : o = t[i].outcome) <=>
              (\E i \in 1 .. Len(s) : o = s[i].outcome) \/ o = a.outcome
        BY <1>1
    <3> QED BY <3>1, <1>1 DEF OutcomesIn
  <2> QED BY <2>1
<1>3. \A i \in DOMAIN t : i < Len(t) => t[i].outcome \in OutcomesIn(s)
  <2> SUFFICES ASSUME NEW i \in DOMAIN t, i < Len(t) PROVE t[i].outcome \in OutcomesIn(s)
      OBVIOUS
  <2>1. i \in 1 .. Len(s)
      BY <1>1
  <2> QED BY <2>1, <1>1 DEF OutcomesIn
<1> QED BY <1>1, <1>2, <1>3 DEF t

LEMMA FirstRecord ==
    ASSUME NEW a \in Records
    PROVE  <<a>> \in Seq(Records) /\ Len(<<a>>) = 1 /\ OutcomesIn(<<a>>) = {a.outcome}
<1>1. <<a>> \in Seq(Records) /\ Len(<<a>>) = 1 /\ DOMAIN <<a>> = {1} /\ <<a>>[1] = a
    OBVIOUS
<1> QED BY <1>1 DEF OutcomesIn

(* A route whose last attempt ends it, and whose earlier ones did not.     *)
LEMMA EndExplained ==
    ASSUME NEW s \in Seq(Records), OutcomesIn(s) \subseteq Passed, NEW a \in Records
    PROVE  /\ a.outcome = "success" => Explained("ok", Append(s, a))
           /\ a.outcome = "client_error" => Explained("UPSTREAM_ERROR", Append(s, a))
           /\ a.outcome \notin {"success", "client_error"} =>
                 /\ Explained(FailureCode(Append(s, a)), Append(s, a))
                 /\ FailureCode(Append(s, a)) \in {"UPSTREAM_TIMEOUT", "ALL_PROVIDERS_FAILED"}
<1> DEFINE t == Append(s, a)
<1>1. /\ t # <<>> /\ OutcomesIn(t) = OutcomesIn(s) \cup {a.outcome}
      /\ \A i \in DOMAIN t : i < Len(t) => t[i].outcome \in Passed
    BY AppendOutcomes
<1>2. FailureCode(t) = IF OutcomesIn(t) \subseteq {"timeout", "deadline_exhausted"}
                       THEN "UPSTREAM_TIMEOUT" ELSE "ALL_PROVIDERS_FAILED"
    BY DEF FailureCode, OutcomesIn
<1> HIDE DEF t
<1>3. a.outcome = "success" => Explained("ok", t)
    BY <1>1 DEF Explained, Passed
<1>4. a.outcome = "client_error" => Explained("UPSTREAM_ERROR", t)
    BY <1>1 DEF Explained, Passed
<1>5. ASSUME a.outcome \notin {"success", "client_error"} PROVE Explained(FailureCode(t), t)
  <2>1. "success" \notin OutcomesIn(t) /\ "client_error" \notin OutcomesIn(t)
      BY <1>1, <1>5 DEF Passed
  <2>2. CASE OutcomesIn(t) \subseteq {"timeout", "deadline_exhausted"}
    <3>1. FailureCode(t) = "UPSTREAM_TIMEOUT"
        BY <1>2, <2>2
    <3>2. Explained("UPSTREAM_TIMEOUT", t)
        BY <1>1, <2>1, <2>2 DEF Explained, Passed
    <3> QED BY <3>1, <3>2
  <2>3. CASE ~ (OutcomesIn(t) \subseteq {"timeout", "deadline_exhausted"})
    <3>1. FailureCode(t) = "ALL_PROVIDERS_FAILED"
        BY <1>2, <2>3
    <3>2. Explained("ALL_PROVIDERS_FAILED", t)
        BY <1>1, <2>1, <2>3 DEF Explained, Passed
    <3> QED BY <3>1, <3>2
  <2> QED BY <2>2, <2>3
<1> QED BY <1>2, <1>3, <1>4, <1>5 DEF t

----------------------------------------------------------------------------
(* The inductive invariant.                                                *)

RouteTypes ==
    /\ pc \in [Requests -> Stages]
    /\ attempts \in [Requests -> Seq(Records)]
    /\ reply \in [Requests -> Replies]
    /\ left \in [Requests -> 0 .. AttemptTimeout]
    /\ spent \in [Requests -> Nat]
    /\ cancels \in 0 .. MaxCancels

(* How far a route is, what it has tried, what it will answer, and where   *)
(* its call of the limiter stands, fit together.                           *)
Stands(stage, called, records, code) ==
    /\ Len(records) <= 2
    /\ stage \in {"start", "reserve", "primary"} => records = <<>> /\ code = "none"
    /\ stage = "start" => called = "idle"
    /\ stage = "reserve" => called \in {"reserving", "held", "refused", "gone"}
    /\ stage = "primary" => called = "held"
    /\ stage = "secondary" => /\ called = "held" /\ code = "none"
                              /\ Len(records) = 1 /\ OutcomesIn(records) \subseteq Passed
    /\ stage = "commit" => /\ called \in {"committing", "committed", "unwinding"}
                           /\ code \in {"none", "cancelled"}
                           /\ Explained("ok", records)
    /\ stage = "release" => /\ called \in {"releasing", "released", "gone"}
                            /\ code \notin {"none", "ok", "lost", "RATE_LIMITED"}
    /\ stage = "done" => /\ called \notin L!Live
                         /\ code = "ok" => called = "committed"
                         /\ code \in GatewayErrors => called \in {"refused", "released"}
    /\ stage \in {"release", "done"} /\ code \in {"ok"} \cup GatewayErrors =>
          Explained(code, records)

RoutesStand == \A r \in Requests : Stands(pc[r], call[r], attempts[r], reply[r])

(* Only a request at the primary is known to the breaker, and the slot is  *)
(* the slot of one.                                                        *)
SlotHeld ==
    /\ B!TypeOK
    /\ \A r \in Requests : dial[r] # "none" => pc[r] = "primary"
    /\ probeInFlight => \E r \in Requests : dial[r] = "probe"

RouterInv == L!IInv /\ RouteTypes /\ RoutesStand /\ SlotHeld /\ AttemptsCapped

LEMMA ConstantTypes ==
    /\ {Limit, Window, MaxOverrun, MaxStepBack, MaxCancels} \subseteq Nat
    /\ Threshold \in Nat \ {0} /\ RecoveryTime \in Nat /\ AttemptTimeout \in Nat
    /\ MaxCancels \in Nat /\ TotalDeadline \in Int
BY RouterAssumption

LEMMA RouterInit == Init => RouterInv
<1> SUFFICES ASSUME Init PROVE RouterInv
    OBVIOUS
<1>1. L!IInv
    BY LimiterInit DEF Init
<1>2. RouteTypes
    BY ConstantTypes DEF Init, RouteTypes, Stages, Replies
<1>3. RoutesStand
  <2>1. \A r \in Requests : call[r] = "idle"
      BY DEF Init, L!Init
  <2> QED BY <2>1 DEF Init, RoutesStand, Stands, GatewayErrors
<1>4. SlotHeld
  <2>1. B!TypeOK
    <3>1. failures \in 0 .. Threshold /\ since \in B!None .. RecoveryTime
        BY ConstantTypes DEF Init, B!None
    <3>2. dial \in [Requests -> B!Dials] /\ age \in [Requests -> 0 .. AttemptTimeout]
        BY ConstantTypes DEF Init, B!Dials
    <3> QED BY <3>1, <3>2 DEF Init, B!TypeOK
  <2> QED BY <2>1 DEF Init, SlotHeld
<1>5. AttemptsCapped
    BY DEF Init, AttemptsCapped
<1> QED BY <1>1, <1>2, <1>3, <1>4, <1>5 DEF RouterInv

----------------------------------------------------------------------------
(* The route moves.                                                        *)

(* One request comes to stand where it stands; the others have not moved.  *)
Moves(r, stage, records, code) ==
    /\ pc' = [pc EXCEPT ![r] = stage] /\ stage \in Stages
    /\ attempts' = [attempts EXCEPT ![r] = records] /\ records \in Seq(Records)
    /\ reply' = [reply EXCEPT ![r] = code] /\ code \in Replies
    /\ left' \in [Requests -> 0 .. AttemptTimeout] /\ Others(left, left', r)
    /\ TotalDeadline # NoDeadline /\ stage \in {"primary", "secondary"} =>
          spent[r] + left'[r] <= TotalDeadline

LEMMA MoveKeeps ==
    ASSUME RouterInv, NEW r \in Requests, NEW stage, NEW records, NEW code,
           Moves(r, stage, records, code), Others(call, call', r),
           Stands(stage, call'[r], records, code),
           [L!Next]_limiter, SlotHeld', spent' = spent, cancels' \in 0 .. MaxCancels
    PROVE  RouterInv'
<1>1. /\ pc' \in [Requests -> Stages] /\ pc'[r] = stage /\ Others(pc, pc', r)
      /\ attempts' \in [Requests -> Seq(Records)] /\ attempts'[r] = records
      /\ Others(attempts, attempts', r)
      /\ reply' \in [Requests -> Replies] /\ reply'[r] = code /\ Others(reply, reply', r)
    BY DEF RouterInv, RouteTypes, Moves, Others
<1>2. RouteTypes'
    BY <1>1 DEF RouterInv, RouteTypes, Moves
<1>3. RoutesStand'
    BY <1>1 DEF RouterInv, RoutesStand, Others
<1>4. AttemptsCapped'
    BY <1>1 DEF RouterInv, AttemptsCapped, Moves, Others, NoDeadline
<1> QED BY <1>2, <1>3, <1>4, LimiterStep DEF RouterInv

LEMMA DialMoves ==
    ASSUME RouterInv, NEW r \in Requests, NEW provider \in {"primary", "secondary"},
           NEW records \in Seq(Records), Dial(r, provider, records)
    PROVE  Moves(r, provider, records, reply[r]) /\ UNCHANGED limiter
<1>1. left' = [left EXCEPT ![r] = Smaller(AttemptTimeout, Remaining(r))]
      /\ Remaining(r) \in Int /\ Remaining(r) > 0
    BY ConstantTypes DEF Dial, Remaining, RouterInv, RouteTypes, NoDeadline
<1>2. Smaller(AttemptTimeout, Remaining(r)) \in 0 .. AttemptTimeout
      /\ Smaller(AttemptTimeout, Remaining(r)) <= Remaining(r)
    BY <1>1, ConstantTypes DEF Smaller
<1>3. left \in [Requests -> 0 .. AttemptTimeout] /\ reply \in [Requests -> Replies]
      /\ spent[r] \in Nat
    BY DEF RouterInv, RouteTypes
<1>4. left' \in [Requests -> 0 .. AttemptTimeout] /\ Others(left, left', r)
      /\ left'[r] <= Remaining(r)
    BY <1>1, <1>2, <1>3 DEF Others
<1>5. TotalDeadline # NoDeadline => spent[r] + left'[r] <= TotalDeadline
    BY <1>3, <1>4, ConstantTypes DEF Remaining
<1>6. reply' = [reply EXCEPT ![r] = reply[r]] /\ reply[r] \in Replies
    BY <1>3 DEF Dial
<1> QED BY <1>4, <1>5, <1>6 DEF Dial, GoTo, Moves, Stages

LEMMA RaiseMoves ==
    ASSUME RouterInv, NEW r \in Requests, NEW code \in Replies,
           NEW records \in Seq(Records), RaiseAndRelease(r, code, records)
    PROVE  /\ Moves(r, "release", records, code) /\ [L!Next]_limiter
           /\ Others(call, call', r) /\ call'[r] = "releasing"
<1>1. left \in [Requests -> 0 .. AttemptTimeout] /\ left' = [left EXCEPT ![r] = 0]
    BY DEF RouterInv, RouteTypes, RaiseAndRelease
<1>2. left' \in [Requests -> 0 .. AttemptTimeout] /\ Others(left, left', r)
    BY <1>1, ConstantTypes DEF Others
<1>3. Moves(r, "release", records, code)
    BY <1>2 DEF RaiseAndRelease, GoTo, Decide, Moves, Stages
<1>4. L!CallRelease(r)
    BY DEF RaiseAndRelease
<1> QED BY <1>3, <1>4, CallSteps DEF L!Next, RouterInv

LEMMA ExhaustMoves ==
    ASSUME RouterInv, NEW r \in Requests, NEW provider \in {"primary", "secondary"},
           NEW records \in Seq(Records), OutcomesIn(records) \subseteq Passed,
           Len(records) <= 1, Exhaust(r, provider, records)
    PROVE  \E all, code :
              /\ Moves(r, "release", all, code) /\ Stands("release", call'[r], all, code)
              /\ [L!Next]_limiter /\ Others(call, call', r)
<1> DEFINE last == Record(provider, "deadline_exhausted")
           all == Append(records, last)
           code == FailureCode(all)
<1>1. last \in Records /\ last.outcome = "deadline_exhausted"
    BY DEF Records, Record, Outcomes
<1>2. /\ all \in Seq(Records) /\ Len(all) <= 2
      /\ Explained(code, all) /\ code \in {"UPSTREAM_TIMEOUT", "ALL_PROVIDERS_FAILED"}
  <2>1. last.outcome \notin {"success", "client_error"}
      BY <1>1
  <2>2. Len(records) \in Nat
      BY LenProperties
  <2> HIDE DEF last
  <2> QED BY <1>1, <2>1, <2>2, AppendOutcomes, EndExplained
<1>3. RaiseAndRelease(r, code, all)
    BY DEF Exhaust
<1> HIDE DEF all, code
<1>4. /\ Moves(r, "release", all, code) /\ [L!Next]_limiter
      /\ Others(call, call', r) /\ call'[r] = "releasing"
    BY <1>2, <1>3, RaiseMoves DEF Replies, GatewayErrors
<1>5. Stands("release", call'[r], all, code)
    BY <1>2, <1>4 DEF Stands
<1> QED BY <1>4, <1>5

----------------------------------------------------------------------------
(* The slot of the breaker.                                                *)

(* A request moves that is not at the primary.                             *)
LEMMA SlotKept ==
    ASSUME RouterInv, NEW r \in Requests, pc[r] # "primary", Others(pc, pc', r),
           UNCHANGED breaker
    PROVE  SlotHeld'
<1>1. B!TypeOK'
    BY DEF RouterInv, SlotHeld, breaker, B!TypeOK, B!Dials, B!None
<1>2. UNCHANGED <<dial, probeInFlight>>
    BY DEF breaker
<1> QED BY <1>1, <1>2 DEF RouterInv, SlotHeld, Others

(* A request leaves the primary, with whatever verdict.                    *)
LEMMA SlotFreed ==
    ASSUME RouterInv, NEW r \in Requests, Others(pc, pc', r),
           B!Succeed(r) \/ B!Fail(r) \/ B!Abandon(r)
    PROVE  SlotHeld'
<1>1. /\ dial \in [Requests -> B!Dials] /\ age \in [Requests -> 0 .. AttemptTimeout]
      /\ dial' = [dial EXCEPT ![r] = "none"] /\ age' = [age EXCEPT ![r] = 0]
      /\ probeInFlight' = FALSE
    BY DEF RouterInv, SlotHeld, B!TypeOK, B!Succeed, B!Fail, B!Abandon, B!Leave,
           B!RecordSuccess, B!RecordFailure, B!AbandonProbe
<1>2. dial' \in [Requests -> B!Dials] /\ age' \in [Requests -> 0 .. AttemptTimeout]
    BY <1>1, ConstantTypes DEF B!Dials
<1>3. failures' \in 0 .. Threshold /\ since' \in B!None .. RecoveryTime
    BY ConstantTypes DEF RouterInv, SlotHeld, B!TypeOK, B!Succeed, B!Fail, B!Abandon,
       B!RecordSuccess, B!RecordFailure, B!AbandonProbe, B!None
<1>4. B!TypeOK'
  <2>1. probeInFlight' \in BOOLEAN
      BY <1>1
  <2> QED BY <1>2, <1>3, <2>1 DEF B!TypeOK, B!Dials, B!None
<1>5. \A q \in Requests : dial'[q] # "none" => pc'[q] = "primary"
    BY <1>1 DEF RouterInv, SlotHeld, Others
<1> QED BY <1>1, <1>4, <1>5 DEF SlotHeld

(* A request goes to the primary, as a probe if it took the slot.          *)
LEMMA SlotTaken ==
    ASSUME RouterInv, NEW r \in Requests, B!Admit(r),
           Others(pc, pc', r), pc'[r] = "primary"
    PROVE  SlotHeld'
<1>1. dial \in [Requests -> B!Dials] /\ age \in [Requests -> 0 .. AttemptTimeout]
    BY DEF RouterInv, SlotHeld, B!TypeOK
<1>2. /\ dial' = [dial EXCEPT ![r] = IF B!State = "closed" THEN "normal" ELSE "probe"]
      /\ UNCHANGED <<failures, since, age>>
      /\ dial[r] = "none"
    BY DEF B!Admit, B!TakeSlot
<1>3. probeInFlight' = (probeInFlight \/ B!State = "half_open")
    BY DEF B!Admit, B!TakeSlot
<1>4. B!TypeOK'
  <2>1. dial' \in [Requests -> B!Dials]
      BY <1>1, <1>2 DEF B!Dials
  <2>2. probeInFlight' \in BOOLEAN
      BY <1>3
  <2>3. failures' \in 0 .. Threshold /\ since' \in B!None .. RecoveryTime
      BY <1>2 DEF RouterInv, SlotHeld, B!TypeOK, B!None
  <2> QED BY <1>1, <1>2, <2>1, <2>2, <2>3 DEF B!TypeOK, B!Dials, B!None
<1>5. \A q \in Requests : dial'[q] # "none" => pc'[q] = "primary"
    BY <1>1, <1>2 DEF RouterInv, SlotHeld, Others
<1>6. ASSUME probeInFlight' PROVE \E q \in Requests : dial'[q] = "probe"
  <2>1. CASE probeInFlight
    <3>1. PICK q \in Requests : dial[q] = "probe"
        BY <2>1 DEF RouterInv, SlotHeld
    <3> QED BY <1>1, <1>2, <3>1
  <2>2. CASE B!State = "half_open"
      BY <1>1, <1>2, <2>2
  <2> QED BY <1>3, <1>6, <2>1, <2>2
<1> QED BY <1>4, <1>5, <1>6 DEF SlotHeld

(* A slot that was taken for a request that is not dialled is given back.  *)
LEMMA SlotUndialled ==
    ASSUME RouterInv, NEW r \in Requests, pc[r] # "primary", Others(pc, pc', r),
           AdmitUndialled(r)
    PROVE  SlotHeld'
<1>1. UNCHANGED <<failures, since, dial, age>> /\ probeInFlight' = FALSE
    BY DEF AdmitUndialled, B!AbandonProbe
<1>2. B!TypeOK'
  <2>1. probeInFlight' \in BOOLEAN
      BY <1>1
  <2> QED BY <1>1, <2>1 DEF RouterInv, SlotHeld, B!TypeOK, B!Dials, B!None
<1> QED BY <1>1, <1>2 DEF RouterInv, SlotHeld, Others

----------------------------------------------------------------------------
(* The steps of a route, one by one.                                       *)

LEMMA StandsNow ==
    ASSUME RouterInv, NEW r \in Requests
    PROVE  /\ Stands(pc[r], call[r], attempts[r], reply[r])
           /\ attempts[r] \in Seq(Records) /\ reply[r] \in Replies
           /\ left[r] \in 0 .. AttemptTimeout
           /\ (TotalDeadline # NoDeadline /\ pc[r] \in {"primary", "secondary"} =>
                 spent[r] + left[r] <= TotalDeadline)
BY DEF RouterInv, RoutesStand, RouteTypes, AttemptsCapped

(* A move that leaves the attempts and what is left of one alone.          *)
LEMMA PlainMove ==
    ASSUME RouterInv, NEW r \in Requests, NEW stage \in Stages \ {"primary", "secondary"},
           NEW code \in Replies, GoTo(r, stage),
           Decide(r, code) \/ (reply' = reply /\ code = reply[r]),
           UNCHANGED <<attempts, left>>
    PROVE  Moves(r, stage, attempts[r], code) /\ Others(pc, pc', r)
<1>1. /\ pc \in [Requests -> Stages] /\ attempts \in [Requests -> Seq(Records)]
      /\ reply \in [Requests -> Replies] /\ left \in [Requests -> 0 .. AttemptTimeout]
    BY DEF RouterInv, RouteTypes
<1>2. attempts' = [attempts EXCEPT ![r] = attempts[r]]
    BY <1>1
<1>3. reply' = [reply EXCEPT ![r] = code]
    BY <1>1 DEF Decide
<1> QED BY <1>1, <1>2, <1>3 DEF Moves, GoTo, Others

LEMMA ArriveStep ==
    ASSUME RouterInv, NEW r \in Requests, Arrive(r)
    PROVE  RouterInv'
<1>1. /\ Moves(r, "reserve", attempts[r], reply[r]) /\ Others(pc, pc', r)
      /\ pc[r] = "start" /\ UNCHANGED breaker
    BY PlainMove, StandsNow DEF Arrive, Stages
<1>2. Others(call, call', r) /\ call'[r] = "reserving" /\ [L!Next]_limiter
    BY CallSteps DEF Arrive, L!Next, RouterInv
<1>3. Stands("reserve", call'[r], attempts[r], reply[r])
    BY <1>1, <1>2, StandsNow DEF Stands
<1> QED BY <1>1, <1>2, <1>3, MoveKeeps, SlotKept DEF Arrive, RouterInv, RouteTypes

LEMMA NotReservedStep ==
    ASSUME RouterInv, NEW r \in Requests, NotReserved(r)
    PROVE  RouterInv'
<1> DEFINE code == IF call[r] = "refused" THEN "RATE_LIMITED" ELSE "INTERNAL_ERROR"
<1>1. /\ code \in Replies /\ pc[r] = "reserve" /\ call[r] \in {"refused", "gone"}
      /\ UNCHANGED <<limiter, breaker>>
    BY DEF NotReserved, Replies, GatewayErrors
<1>2. Moves(r, "done", attempts[r], code) /\ Others(pc, pc', r)
  <2>1. GoTo(r, "done") /\ Decide(r, code) /\ UNCHANGED <<attempts, left>>
      BY DEF NotReserved
  <2>2. ASSUME NEW c \in Replies, Decide(r, c)
        PROVE  Moves(r, "done", attempts[r], c) /\ Others(pc, pc', r)
    <3>1. "done" \in Stages \ {"primary", "secondary"}
        BY DEF Stages
    <3> QED BY <2>1, <2>2, <3>1, PlainMove
  <2> QED BY <1>1, <2>1, <2>2
<1>3. call' = call
    BY <1>1 DEF limiter
<1>4. Stands("done", call'[r], attempts[r], code)
  <2>1. attempts[r] = <<>>
      BY <1>1, StandsNow DEF Stands
  <2>2. Explained("RATE_LIMITED", <<>>)
      BY DEF Explained, OutcomesIn
  <2> QED BY <1>1, <1>3, <2>1, <2>2 DEF Stands, L!Live, GatewayErrors
<1> QED BY <1>1, <1>2, <1>3, <1>4, MoveKeeps, SlotKept
        DEF NotReserved, Others, RouterInv, RouteTypes

(* The loop goes on to the secondary, or finds no time for it.             *)
LEMMA SecondaryMoves ==
    ASSUME RouterInv, NEW r \in Requests, call[r] = "held", reply[r] = "none",
           NEW records \in Seq(Records), Len(records) = 1, OutcomesIn(records) \subseteq Passed,
           TrySecondary(r, records)
    PROVE  \E stage, all, code :
              /\ Moves(r, stage, all, code) /\ Stands(stage, call'[r], all, code)
              /\ [L!Next]_limiter /\ Others(call, call', r)
<1>1. CASE Dial(r, "secondary", records)
  <2>1. Moves(r, "secondary", records, reply[r]) /\ UNCHANGED limiter
      BY <1>1, DialMoves
  <2>2. call' = call
      BY <2>1 DEF limiter
  <2>3. Stands("secondary", call'[r], records, reply[r])
      BY <2>2 DEF Stands
  <2>4. Others(call, call', r)
      BY <2>2 DEF Others
  <2> QED BY <2>1, <2>3, <2>4
<1>2. CASE Exhaust(r, "secondary", records)
  <2>1. "secondary" \in {"primary", "secondary"} /\ Len(records) <= 1
      OBVIOUS
  <2>2. PICK all, code :
            /\ Moves(r, "release", all, code) /\ Stands("release", call'[r], all, code)
            /\ [L!Next]_limiter /\ Others(call, call', r)
      BY <1>2, <2>1, ExhaustMoves
  <2> QED BY <2>2
<1> QED BY <1>1, <1>2 DEF TrySecondary

LEMMA MovesPc ==
    ASSUME RouterInv, NEW r \in Requests, NEW stage, NEW records, NEW code,
           Moves(r, stage, records, code)
    PROVE  Others(pc, pc', r) /\ pc'[r] = stage
BY DEF RouterInv, RouteTypes, Moves, Others

LEMMA ReservedStep ==
    ASSUME RouterInv, NEW r \in Requests, Reserved(r)
    PROVE  RouterInv'
<1>1. /\ pc[r] = "reserve" /\ call[r] = "held" /\ attempts[r] = <<>> /\ reply[r] = "none"
      /\ UNCHANGED <<spent, cancels>> /\ cancels' \in 0 .. MaxCancels
    BY StandsNow DEF Reserved, Stands, RouterInv, RouteTypes
<1>2. <<>> \in Seq(Records) /\ OutcomesIn(<<>>) \subseteq Passed /\ Len(<<>>) <= 1
    BY DEF OutcomesIn
<1>3. CASE B!Admit(r) /\ Dial(r, "primary", <<>>)
  <2>1. Moves(r, "primary", <<>>, "none") /\ UNCHANGED limiter
      BY <1>1, <1>2, <1>3, DialMoves
  <2>2. call' = call
      BY <2>1 DEF limiter
  <2>3. Stands("primary", call'[r], <<>>, "none")
      BY <1>1, <1>2, <2>2 DEF Stands, GatewayErrors
  <2>4. SlotHeld'
      BY <1>3, <2>1, MovesPc, SlotTaken
  <2>5. Others(call, call', r)
      BY <2>2 DEF Others
  <2> QED BY <1>1, <2>1, <2>3, <2>4, <2>5, MoveKeeps
<1>4. CASE AdmitUndialled(r) /\ Exhaust(r, "primary", <<>>)
  <2>1. PICK all, code :
            /\ Moves(r, "release", all, code) /\ Stands("release", call'[r], all, code)
            /\ [L!Next]_limiter /\ Others(call, call', r)
      BY <1>2, <1>4, ExhaustMoves
  <2>2. SlotHeld'
      BY <1>1, <1>4, <2>1, MovesPc, SlotUndialled
  <2> QED BY <1>1, <2>1, <2>2, MoveKeeps
<1>5. CASE UNCHANGED breaker /\ TrySecondary(r, <<Record("primary", "circuit_open")>>)
  <2> DEFINE first == Record("primary", "circuit_open")
  <2>1. first \in Records /\ first.outcome \in Passed
      BY DEF Records, Record, Outcomes, Passed
  <2>2. <<first>> \in Seq(Records) /\ Len(<<first>>) = 1 /\ OutcomesIn(<<first>>) \subseteq Passed
    <3> HIDE DEF first
    <3> QED BY <2>1, FirstRecord
  <2>3. PICK stage, all, code :
            /\ Moves(r, stage, all, code) /\ Stands(stage, call'[r], all, code)
            /\ [L!Next]_limiter /\ Others(call, call', r)
    <3> HIDE DEF first
    <3>1. TrySecondary(r, <<first>>)
        BY <1>5 DEF first
    <3> QED BY <1>1, <2>2, <3>1, SecondaryMoves
  <2>4. SlotHeld'
      BY <1>1, <1>5, <2>3, MovesPc, SlotKept
  <2> QED BY <1>1, <2>3, <2>4, MoveKeeps
<1> QED BY <1>3, <1>4, <1>5 DEF Reserved

LEMMA AttemptedStep ==
    ASSUME RouterInv, NEW r \in Requests,
           NEW outcome \in Outcomes \ {"circuit_open", "deadline_exhausted"},
           Attempted(r, outcome)
    PROVE  RouterInv'
<1> DEFINE last == Record(pc[r], outcome)
           records == Append(attempts[r], last)
<1>1. /\ pc[r] \in {"primary", "secondary"} /\ UNCHANGED <<spent, cancels>>
      /\ cancels' \in 0 .. MaxCancels
    BY DEF Attempted, RouterInv, RouteTypes
<1>2. /\ attempts[r] \in Seq(Records) /\ Len(attempts[r]) <= 1
      /\ pc[r] = "primary" => Len(attempts[r]) = 0
      /\ OutcomesIn(attempts[r]) \subseteq Passed
      /\ call[r] = "held" /\ reply[r] = "none"
  <2>1. Stands(pc[r], call[r], attempts[r], reply[r]) /\ attempts[r] \in Seq(Records)
      BY StandsNow
  <2>2. OutcomesIn(<<>>) = {} /\ Len(<<>>) = 0
      BY DEF OutcomesIn
  <2>3. CASE pc[r] = "primary"
    <3>1. attempts[r] = <<>> /\ reply[r] = "none" /\ call[r] = "held"
        BY <2>1, <2>3 DEF Stands
    <3> QED BY <2>1, <2>2, <3>1
  <2>4. CASE pc[r] = "secondary"
    <3>1. /\ call[r] = "held" /\ reply[r] = "none" /\ Len(attempts[r]) = 1
          /\ OutcomesIn(attempts[r]) \subseteq Passed
        BY <2>1, <2>4 DEF Stands
    <3> QED BY <2>1, <2>4, <3>1
  <2> QED BY <1>1, <2>1, <2>3, <2>4
<1>3. last \in Records /\ last.outcome = outcome
    BY <1>1 DEF Records, Record
<1>4. /\ records \in Seq(Records) /\ Len(records) = Len(attempts[r]) + 1 /\ Len(records) <= 2
      /\ pc[r] = "primary" => Len(records) = 1
      /\ OutcomesIn(records) = OutcomesIn(attempts[r]) \cup {outcome}
  <2>1. Len(attempts[r]) \in Nat
      BY <1>2, LenProperties
  <2> HIDE DEF last
  <2> QED BY <1>2, <1>3, <2>1, AppendOutcomes
<1>5. /\ outcome = "success" => Explained("ok", records)
      /\ outcome = "client_error" => Explained("UPSTREAM_ERROR", records)
      /\ outcome \notin {"success", "client_error"} =>
            /\ Explained(FailureCode(records), records)
            /\ FailureCode(records) \in {"UPSTREAM_TIMEOUT", "ALL_PROVIDERS_FAILED"}
  <2> HIDE DEF last
  <2> QED BY <1>2, <1>3, EndExplained
<1>6. Others(pc, pc', r) => SlotHeld'
  <2>1. CASE pc[r] = "primary"
      BY <2>1, SlotFreed DEF Attempted, Report
  <2>2. CASE pc[r] # "primary"
      BY <2>2, SlotKept DEF Attempted
  <2> QED BY <2>1, <2>2
<1>7. \E stage, all, code :
         /\ Moves(r, stage, all, code) /\ Stands(stage, call'[r], all, code)
         /\ [L!Next]_limiter /\ Others(call, call', r)
  <2>1. CASE outcome = "success"
    <3>1. /\ L!CallCommit(r) /\ GoTo(r, "commit")
          /\ attempts' = [attempts EXCEPT ![r] = records]
          /\ left' = [left EXCEPT ![r] = 0] /\ UNCHANGED reply
        BY <2>1 DEF Attempted
    <3> HIDE DEF records
    <3>2. left' \in [Requests -> 0 .. AttemptTimeout] /\ Others(left, left', r)
        BY <3>1, ConstantTypes DEF RouterInv, RouteTypes, Others
    <3>3. reply' = [reply EXCEPT ![r] = reply[r]] /\ reply[r] \in Replies
        BY <3>1 DEF RouterInv, RouteTypes
    <3>4. Moves(r, "commit", records, reply[r])
        BY <1>4, <3>1, <3>2, <3>3 DEF Moves, GoTo, Stages
    <3>5. Others(call, call', r) /\ call'[r] = "committing" /\ [L!Next]_limiter
        BY <3>1, CallSteps DEF L!Next, RouterInv
    <3>6. Stands("commit", call'[r], records, reply[r])
        BY <1>2, <1>4, <1>5, <2>1, <3>5 DEF Stands
    <3> QED BY <3>4, <3>5, <3>6
  <2>2. ASSUME NEW code \in Replies \ {"none", "ok", "lost", "RATE_LIMITED"},
               Explained(code, records), RaiseAndRelease(r, code, records)
        PROVE  <1>7
    <3> HIDE DEF records
    <3>1. /\ Moves(r, "release", records, code) /\ [L!Next]_limiter
          /\ Others(call, call', r) /\ call'[r] = "releasing"
        BY <1>4, <2>2, RaiseMoves
    <3>2. Stands("release", call'[r], records, code)
        BY <1>4, <2>2, <3>1 DEF Stands
    <3> QED BY <3>1, <3>2
  <2>3. CASE outcome = "client_error"
    <3>1. RaiseAndRelease(r, "UPSTREAM_ERROR", records)
        BY <2>3 DEF Attempted
    <3> HIDE DEF records
    <3> QED BY <1>5, <2>2, <2>3, <3>1 DEF Replies, GatewayErrors
  <2>4. CASE outcome \notin {"success", "client_error"} /\ pc[r] = "primary"
    <3>1. TrySecondary(r, records)
        BY <2>4 DEF Attempted
    <3>2. OutcomesIn(records) \subseteq Passed
        BY <1>2, <1>4, <2>4 DEF Outcomes, Passed
    <3> HIDE DEF records
    <3> QED BY <1>2, <1>4, <2>4, <3>1, <3>2, SecondaryMoves
  <2>5. CASE outcome \notin {"success", "client_error"} /\ pc[r] # "primary"
    <3>1. RaiseAndRelease(r, FailureCode(records), records)
        BY <2>5 DEF Attempted
    <3> HIDE DEF records
    <3> QED BY <1>5, <2>2, <2>5, <3>1 DEF Replies, GatewayErrors
  <2> QED BY <2>1, <2>3, <2>4, <2>5
<1> HIDE DEF records
<1>8. PICK stage, all, code :
         /\ Moves(r, stage, all, code) /\ Stands(stage, call'[r], all, code)
         /\ [L!Next]_limiter /\ Others(call, call', r)
    BY <1>7
<1> QED BY <1>1, <1>6, <1>8, MovesPc, MoveKeeps

LEMMA CommittedStep ==
    ASSUME RouterInv, NEW r \in Requests, Committed(r)
    PROVE  RouterInv'
<1>1. /\ pc[r] = "commit" /\ call[r] = "committed" /\ "ok" \in Replies
      /\ UNCHANGED <<limiter, breaker>>
    BY DEF Committed, Replies
<1>2. Moves(r, "done", attempts[r], "ok") /\ Others(pc, pc', r)
    BY <1>1, PlainMove DEF Committed, Stages
<1>3. call' = call
    BY <1>1 DEF limiter
<1>4. Stands("done", call'[r], attempts[r], "ok")
    BY <1>1, <1>3, StandsNow DEF Stands, L!Live, GatewayErrors
<1> QED BY <1>1, <1>2, <1>3, <1>4, MoveKeeps, SlotKept
        DEF Committed, Others, RouterInv, RouteTypes

LEMMA NotCommittedStep ==
    ASSUME RouterInv, NEW r \in Requests, NotCommitted(r)
    PROVE  RouterInv'
<1> DEFINE code == IF reply[r] = "none" THEN "INTERNAL_ERROR" ELSE reply[r]
<1>1. /\ pc[r] = "commit" /\ UNCHANGED <<breaker, spent, cancels>>
      /\ RaiseAndRelease(r, code, attempts[r])
    BY DEF NotCommitted
<1>2. code \in {"INTERNAL_ERROR", "cancelled"} /\ Len(attempts[r]) <= 2
      /\ attempts[r] \in Seq(Records)
    BY <1>1, StandsNow DEF Stands
<1> HIDE DEF code
<1>3. /\ Moves(r, "release", attempts[r], code) /\ [L!Next]_limiter
      /\ Others(call, call', r) /\ call'[r] = "releasing"
    BY <1>1, <1>2, RaiseMoves DEF Replies
<1>4. Stands("release", call'[r], attempts[r], code)
    BY <1>2, <1>3 DEF Stands, GatewayErrors
<1>5. SlotHeld'
    BY <1>1, <1>3, MovesPc, SlotKept
<1> QED BY <1>1, <1>3, <1>4, <1>5, MoveKeeps DEF RouterInv, RouteTypes

LEMMA ReleasedStep ==
    ASSUME RouterInv, NEW r \in Requests, Released(r)
    PROVE  RouterInv'
<1>1. /\ pc[r] = "release" /\ call[r] \in {"released", "gone"}
      /\ UNCHANGED <<limiter, breaker, attempts, left, spent, cancels>> /\ GoTo(r, "done")
      /\ Decide(r, IF call[r] = "gone" THEN "INTERNAL_ERROR" ELSE reply[r])
    BY DEF Released
<1>2. PICK code \in Replies \ {"none", "ok", "lost", "RATE_LIMITED"} :
          /\ Decide(r, code)
          /\ code \in GatewayErrors => call[r] = "released"
          /\ code \in GatewayErrors => Explained(code, attempts[r])
  <2>1. /\ reply[r] \in Replies \ {"none", "ok", "lost", "RATE_LIMITED"}
        /\ reply[r] \in GatewayErrors => Explained(reply[r], attempts[r])
      BY <1>1, StandsNow DEF Stands
  <2>2. CASE call[r] = "gone"
      BY <1>1, <2>2 DEF Replies, GatewayErrors
  <2>3. CASE call[r] = "released"
      BY <1>1, <2>1, <2>3
  <2> QED BY <1>1, <2>2, <2>3
<1>3. Moves(r, "done", attempts[r], code) /\ Others(pc, pc', r)
    BY <1>1, <1>2, PlainMove DEF Stages
<1>4. call' = call
    BY <1>1 DEF limiter
<1>5. Stands("done", call'[r], attempts[r], code)
  <2>1. Len(attempts[r]) <= 2
      BY StandsNow DEF Stands
  <2> QED BY <1>1, <1>2, <1>4, <2>1 DEF Stands, L!Live
<1> QED BY <1>1, <1>3, <1>4, <1>5, MoveKeeps, SlotKept
        DEF Others, RouterInv, RouteTypes

LEMMA CancelStep ==
    ASSUME RouterInv, NEW r \in Requests, CancelRoute(r)
    PROVE  RouterInv'
<1>1. /\ cancels' \in 0 .. MaxCancels /\ spent' = spent /\ "cancelled" \in Replies
      /\ Len(attempts[r]) <= 2 /\ attempts[r] \in Seq(Records)
      /\ "cancelled" \notin {"none", "ok", "lost", "RATE_LIMITED"} \cup GatewayErrors
    BY StandsNow, ConstantTypes
       DEF CancelRoute, RouterInv, RouteTypes, Replies, Stands, GatewayErrors
<1>2. ASSUME RaiseAndRelease(r, "cancelled", attempts[r]), Others(pc, pc', r) => SlotHeld'
      PROVE  RouterInv'
  <2>1. /\ Moves(r, "release", attempts[r], "cancelled") /\ [L!Next]_limiter
        /\ Others(call, call', r) /\ call'[r] = "releasing"
      BY <1>1, <1>2, RaiseMoves
  <2>2. Stands("release", call'[r], attempts[r], "cancelled")
      BY <1>1, <2>1 DEF Stands
  <2> QED BY <1>1, <1>2, <2>1, <2>2, MovesPc, MoveKeeps
<1>3. CASE /\ pc[r] = "reserve" \/ pc[r] = "release"
           /\ L!Cancel(r) /\ GoTo(r, "done") /\ Decide(r, "cancelled")
           /\ UNCHANGED <<breaker, attempts, left>>
  <2>1. Moves(r, "done", attempts[r], "cancelled") /\ Others(pc, pc', r)
      BY <1>1, <1>3, PlainMove DEF Stages
  <2>2. Others(call, call', r) /\ call'[r] = "gone" /\ [L!Next]_limiter
    <3>1. call[r] # "committing"
        BY <1>3, StandsNow DEF Stands
    <3> QED BY <1>3, <3>1, CallSteps DEF L!Next, RouterInv
  <2>3. Stands("done", call'[r], attempts[r], "cancelled")
      BY <1>1, <2>2 DEF Stands, L!Live
  <2>4. SlotHeld'
      BY <1>3, <2>1, SlotKept
  <2> QED BY <1>1, <2>1, <2>2, <2>3, <2>4, MoveKeeps
<1>4. CASE /\ pc[r] = "primary" /\ B!Abandon(r)
           /\ RaiseAndRelease(r, "cancelled", attempts[r])
    BY <1>2, <1>4, SlotFreed
<1>5. CASE /\ pc[r] = "secondary" /\ UNCHANGED breaker
           /\ RaiseAndRelease(r, "cancelled", attempts[r])
    BY <1>2, <1>5, SlotKept
<1>6. CASE /\ pc[r] = "commit" /\ L!Cancel(r) /\ Decide(r, "cancelled")
           /\ UNCHANGED <<breaker, pc, attempts, left>>
  <2>1. GoTo(r, "commit")
      BY <1>6 DEF GoTo, RouterInv, RouteTypes
  <2>2. Moves(r, "commit", attempts[r], "cancelled") /\ Others(pc, pc', r)
      BY <1>1, <1>6, <2>1, PlainMove DEF Stages
  <2>3. Others(call, call', r) /\ call'[r] = "unwinding" /\ [L!Next]_limiter
    <3>1. call[r] \in {"committing", "committed", "unwinding"}
        BY <1>6, StandsNow DEF Stands
    <3> QED BY <1>6, <3>1, CallSteps DEF L!Next, RouterInv
  <2>4. Stands("commit", call'[r], attempts[r], "cancelled")
      BY <1>1, <1>6, <2>3, StandsNow DEF Stands
  <2>5. SlotHeld'
      BY <1>6, <2>2, SlotKept
  <2> QED BY <1>1, <2>2, <2>3, <2>4, <2>5, MoveKeeps
<1> QED BY <1>3, <1>4, <1>5, <1>6 DEF CancelRoute

----------------------------------------------------------------------------
(* The steps around the routes.                                            *)

(* A job of the pool takes the awaited call to where it settles.           *)
LEMMA WorkStep ==
    ASSUME RouterInv, NEW r \in Requests, NEW op \in L!Ops, Work(r, op)
    PROVE  RouterInv'
<1>1. UNCHANGED <<breaker, route, cancels>>
    BY DEF Work
<1>2. \A q \in Requests : call'[q] = call[q] \/ call'[q] \in Settled(call[q])
    BY JobSteps DEF Work, RouterInv
<1>3. L!IInv'
    BY LimiterStep DEF Work, L!Next, RouterInv
<1>4. RoutesStand'
  <2> SUFFICES ASSUME NEW q \in Requests PROVE Stands(pc[q], call'[q], attempts[q], reply[q])
      BY <1>1 DEF RoutesStand, route
  <2>1. CASE call'[q] = call[q]
      BY <2>1, StandsNow
  <2>2. CASE call'[q] # call[q]
    <3>1. /\ call[q] \in {"reserving", "committing", "releasing"}
          /\ call[q] = "reserving" => call'[q] \in {"held", "refused", "gone"}
          /\ call[q] = "committing" => call'[q] \in {"committed", "unwinding"}
          /\ call[q] = "releasing" => call'[q] \in {"released", "gone"}
        BY <1>2, <2>2 DEF Settled
    <3>2. Stands(pc[q], call[q], attempts[q], reply[q]) /\ pc[q] \in Stages
        BY StandsNow DEF RouterInv, RouteTypes
    <3>3. CASE pc[q] \in {"start", "primary", "secondary", "done"}
        BY <3>1, <3>2, <3>3 DEF Stands, L!Live
    <3>4. CASE pc[q] \in {"reserve", "commit", "release"}
        BY <3>1, <3>2, <3>4 DEF Stands
    <3> QED BY <3>2, <3>3, <3>4 DEF Stages
  <2> QED BY <2>1, <2>2
<1>5. SlotHeld'
    BY <1>1 DEF RouterInv, SlotHeld, breaker, route, B!TypeOK, B!Dials, B!None
<1>6. RouteTypes' /\ AttemptsCapped'
    BY <1>1 DEF RouterInv, RouteTypes, AttemptsCapped, route
<1> QED BY <1>3, <1>4, <1>5, <1>6 DEF RouterInv

LEMMA TimePassesStep == ASSUME RouterInv, TimePasses PROVE RouterInv'
<1>1. /\ UNCHANGED <<table, call, ask, queued, running, now, pc, attempts, reply, cancels>>
      /\ \A r \in Requests : pc[r] \in {"primary", "secondary"} => left[r] > 0
      /\ B!TimePasses
      /\ left' = [r \in Requests |-> IF left[r] > 0 THEN left[r] - 1 ELSE 0]
      /\ spent' = [r \in Requests |->
                     IF pc[r] \notin {"reserve", "primary", "secondary"} THEN 0
                     ELSE IF spent[r] > TotalDeadline THEN spent[r] ELSE spent[r] + 1]
    BY DEF TimePasses, limiter
<1>2. L!IInv'
  <2>1. UNCHANGED limiter
      BY <1>1 DEF limiter
  <2> QED BY <2>1, LimiterStep DEF RouterInv
<1>3. RoutesStand'
    BY <1>1 DEF RouterInv, RoutesStand
<1>4. RouteTypes'
  <2>1. /\ left \in [Requests -> 0 .. AttemptTimeout] /\ spent \in [Requests -> Nat]
        /\ pc \in [Requests -> Stages] /\ attempts \in [Requests -> Seq(Records)]
        /\ reply \in [Requests -> Replies] /\ cancels \in 0 .. MaxCancels
      BY DEF RouterInv, RouteTypes
  <2>2. left' \in [Requests -> 0 .. AttemptTimeout]
      BY <1>1, <2>1, ConstantTypes
  <2>3. spent' \in [Requests -> Nat]
      BY <1>1, <2>1
  <2> QED BY <1>1, <2>1, <2>2, <2>3 DEF RouteTypes
<1>5. SlotHeld'
  <2>1. /\ UNCHANGED <<failures, probeInFlight, dial, pc>>
        /\ age' = [r \in Requests |-> IF dial[r] = "none" THEN 0 ELSE age[r] + 1]
        /\ \A r \in Requests : dial[r] # "none" => age[r] < AttemptTimeout
        /\ since' = IF since # B!None /\ since < RecoveryTime THEN since + 1 ELSE since
      BY <1>1 DEF B!TimePasses
  <2>2. B!TypeOK
      BY DEF RouterInv, SlotHeld
  <2>3. age' \in [Requests -> 0 .. AttemptTimeout]
      BY <2>1, <2>2, ConstantTypes DEF B!TypeOK
  <2>4. since' \in B!None .. RecoveryTime
      BY <2>1, <2>2, ConstantTypes DEF B!TypeOK, B!None
  <2>5. B!TypeOK'
      BY <2>1, <2>2, <2>3, <2>4 DEF B!TypeOK, B!Dials, B!None
  <2> QED BY <2>1, <2>5 DEF RouterInv, SlotHeld
<1>6. AttemptsCapped'
  <2> SUFFICES ASSUME TotalDeadline # NoDeadline, NEW r \in Requests,
                      pc[r] \in {"primary", "secondary"}
               PROVE  spent'[r] + left'[r] <= TotalDeadline
      BY <1>1 DEF AttemptsCapped, NoDeadline
  <2>1. /\ spent[r] + left[r] <= TotalDeadline /\ left[r] > 0
        /\ spent[r] \in Nat /\ left[r] \in Nat
      BY <1>1, ConstantTypes DEF RouterInv, AttemptsCapped, RouteTypes
  <2>2. left'[r] = left[r] - 1 /\ spent'[r] = spent[r] + 1
      BY <1>1, <2>1, ConstantTypes
  <2> QED BY <2>1, <2>2, ConstantTypes
<1> QED BY <1>2, <1>3, <1>4, <1>5, <1>6 DEF RouterInv

(* Steps of the limiter alone.                                             *)
LEMMA WallClockStep == ASSUME RouterInv, WallClock PROVE RouterInv'
<1>1. UNCHANGED <<breaker, route, cancels, call>> /\ [L!Next]_limiter
    BY DEF WallClock, L!Tick, L!Next
<1>2. L!IInv'
    BY <1>1, LimiterStep DEF RouterInv
<1>3. SlotHeld'
    BY <1>1 DEF RouterInv, SlotHeld, breaker, route, B!TypeOK, B!Dials, B!None
<1>4. RouteTypes' /\ AttemptsCapped' /\ RoutesStand'
    BY <1>1 DEF RouterInv, RouteTypes, AttemptsCapped, RoutesStand, route
<1> QED BY <1>2, <1>3, <1>4 DEF RouterInv

LEMMA CrashStep == ASSUME RouterInv, Crash PROVE RouterInv'
<1>1. L!IInv' /\ call' = [r \in Requests |-> IF call[r] \in L!Live THEN "gone" ELSE call[r]]
    BY LimiterStep DEF RouterInv, Crash, L!Next, L!Crash
<1>2. /\ pc' = [r \in Requests |-> IF pc[r] = "start" THEN "start" ELSE "done"]
      /\ reply' = [r \in Requests |-> IF pc[r] \in {"start", "done"} THEN reply[r] ELSE "lost"]
      /\ left' = [r \in Requests |-> 0]
      /\ UNCHANGED <<attempts, spent, cancels>>
    BY DEF Crash
<1>3. RouteTypes'
  <2>1. /\ spent \in [Requests -> Nat] /\ attempts \in [Requests -> Seq(Records)]
        /\ pc \in [Requests -> Stages] /\ reply \in [Requests -> Replies]
        /\ cancels \in 0 .. MaxCancels
      BY DEF RouterInv, RouteTypes
  <2>2. pc' \in [Requests -> Stages]
      BY <1>2 DEF Stages
  <2>3. reply' \in [Requests -> Replies]
      BY <1>2, <2>1 DEF Replies
  <2>4. left' \in [Requests -> 0 .. AttemptTimeout]
      BY <1>2, ConstantTypes
  <2> QED BY <1>2, <2>1, <2>2, <2>3, <2>4 DEF RouteTypes
<1>4. RoutesStand'
  <2> SUFFICES ASSUME NEW r \in Requests
               PROVE  Stands(pc'[r], call'[r], attempts[r], reply'[r])
      BY <1>2 DEF RoutesStand
  <2>1. Stands(pc[r], call[r], attempts[r], reply[r])
      BY StandsNow
  <2>2. CASE pc[r] \in {"start", "done"}
    <3>1. pc'[r] = pc[r] /\ reply'[r] = reply[r] /\ call'[r] = call[r]
        BY <1>1, <1>2, <2>1, <2>2 DEF Stands, L!Live
    <3> QED BY <2>1, <3>1
  <2>3. CASE pc[r] \notin {"start", "done"}
    <3>1. pc'[r] = "done" /\ reply'[r] = "lost" /\ call'[r] \notin L!Live
        BY <1>1, <1>2, <2>3 DEF L!Live
    <3> QED BY <2>1, <3>1 DEF Stands, GatewayErrors
  <2> QED BY <2>2, <2>3
<1>5. SlotHeld'
  <2>1. /\ failures' = 0 /\ since' = B!None /\ probeInFlight' = FALSE
        /\ dial' = [r \in Requests |-> "none"] /\ age' = [r \in Requests |-> 0]
      BY DEF Crash
  <2>2. dial' \in [Requests -> B!Dials] /\ age' \in [Requests -> 0 .. AttemptTimeout]
      BY <2>1, ConstantTypes DEF B!Dials
  <2>3. failures' \in 0 .. Threshold /\ since' \in B!None .. RecoveryTime
      BY <2>1, ConstantTypes DEF B!None
  <2>4. B!TypeOK'
      BY <2>1, <2>2, <2>3 DEF B!TypeOK, B!Dials, B!None
  <2> QED BY <2>1, <2>4 DEF SlotHeld
<1>6. AttemptsCapped'
    BY <1>2 DEF AttemptsCapped
<1> QED BY <1>1, <1>3, <1>4, <1>5, <1>6 DEF RouterInv

LEMMA RouterStep == RouterInv /\ [Next]_vars => RouterInv'
<1> SUFFICES ASSUME RouterInv, [Next]_vars PROVE RouterInv'
    OBVIOUS
<1>1. ASSUME NEW r \in Requests, Resume(r) PROVE RouterInv'
    BY <1>1, NotReservedStep, ReservedStep, CommittedStep, NotCommittedStep, ReleasedStep,
       AttemptedStep DEF Resume
<1>2. CASE UNCHANGED vars
  <2>1. /\ UNCHANGED <<failures, since, probeInFlight, dial, age, pc, attempts, reply,
                       left, spent, cancels, call>>
        /\ UNCHANGED limiter
      BY <1>2 DEF vars, limiter, breaker, route
  <2>2. L!IInv'
      BY <2>1, LimiterStep DEF RouterInv
  <2>3. SlotHeld'
      BY <2>1 DEF RouterInv, SlotHeld, B!TypeOK, B!Dials, B!None
  <2> QED BY <2>1, <2>2, <2>3 DEF RouterInv, RouteTypes, AttemptsCapped, RoutesStand
<1> QED BY <1>1, <1>2, ArriveStep, CancelStep, WorkStep, TimePassesStep, WallClockStep,
           CrashStep DEF Next

----------------------------------------------------------------------------
(* What follows.                                                           *)

(* The types of the composed model.                                        *)
THEOREM RouterTypes == Spec => []TypeOK
<1>1. RouterInv => TypeOK
  <2> SUFFICES ASSUME RouterInv PROVE TypeOK
      OBVIOUS
  <2>1. ASSUME NEW r \in Requests
        PROVE  /\ Len(attempts[r]) <= 2
               /\ \A i \in DOMAIN attempts[r] : attempts[r][i] \in Records
    <3>1. attempts[r] \in Seq(Records)
        BY StandsNow
    <3>2. \A i \in DOMAIN attempts[r] : attempts[r][i] \in Records
        BY <3>1, ElementOfSeq, LenProperties
    <3> QED BY <3>2, StandsNow DEF Stands
  <2> QED BY <2>1 DEF RouterInv, RouteTypes, SlotHeld, L!IInv, TypeOK, Records
<1> QED BY <1>1, RouterInit, RouterStep, PTL DEF Spec

(* What a request is charged and what it is told agree, whichever jobs are *)
(* still in the pool (router.py:204-319, rate_limiter.py:196-221).         *)
THEOREM ChargeMatchesAnswer == Spec => []ChargedIffAnswered
<1>1. RouterInv => ChargedIffAnswered
  <2> SUFFICES ASSUME RouterInv, NEW r \in Requests, Returned(r)
               PROVE  /\ reply[r] = "ok" /\ r \in L!Rows =>
                            table[r].state = "committed" /\ table[r].tokens = ask[r].actual
                      /\ reply[r] \in GatewayErrors => r \notin L!Rows
      BY DEF ChargedIffAnswered
  <2>1. /\ reply[r] = "ok" => call[r] = "committed"
        /\ reply[r] \in GatewayErrors => call[r] \in {"refused", "released"}
      BY StandsNow DEF Returned, Stands
  <2> QED BY <2>1 DEF RouterInv, L!IInv, L!LedgerAgrees
<1> QED BY <1>1, RouterInit, RouterStep, PTL DEF Spec

(* The answer of a route follows from its attempts (router.py:244-312).    *)
THEOREM AnswersExplained == Spec => []AnswerExplained
<1>1. RouterInv => AnswerExplained
    BY StandsNow DEF AnswerExplained, Returned, Stands
<1> QED BY <1>1, RouterInit, RouterStep, PTL DEF Spec

(* No provider is awaited past the total deadline (router.py:249-260).     *)
THEOREM DeadlineKept == Spec => []AttemptsCapped
<1>1. RouterInv => AttemptsCapped
    BY DEF RouterInv
<1> QED BY <1>1, RouterInit, RouterStep, PTL DEF Spec

(* A taken slot is that of a request at the primary (router.py:196-258).   *)
THEOREM SlotStaysInRoute == Spec => []SlotInRoute
<1>1. RouterInv => SlotInRoute
    BY DEF RouterInv, SlotHeld, SlotInRoute
<1> QED BY <1>1, RouterInit, RouterStep, PTL DEF Spec

(* The router takes only steps of the limiter or stutters, so what is      *)
(* proved of the limiter holds of the router (router.py:220, :277, :314).  *)
THEOREM RouterIsLimiter == Spec => L!Spec
<1>1. Init => L!Init
    BY DEF Init
<1>2. [Next]_vars => [L!Next]_(L!vars)
  <2> SUFFICES ASSUME [Next]_vars PROVE L!Next \/ UNCHANGED limiter
      BY DEF limiter, L!vars
  <2>1. ASSUME NEW r \in Requests, Resume(r) PROVE L!Next \/ UNCHANGED limiter
    <3>1. \/ L!CallCommit(r) \/ L!CallRelease(r)
          \/ UNCHANGED limiter
        BY <2>1 DEF Resume, NotReserved, Reserved, Attempted, Committed, NotCommitted, Released,
                    Dial, Exhaust, TrySecondary, RaiseAndRelease
    <3> QED BY <3>1 DEF L!Next
  <2>2. ASSUME NEW r \in Requests, CancelRoute(r) PROVE L!Next
      BY <2>2 DEF CancelRoute, RaiseAndRelease, L!Next
  <2>3. ASSUME NEW r \in Requests, Arrive(r) PROVE L!Next
      BY <2>3 DEF Arrive, L!Next
  <2>4. ASSUME NEW r \in Requests, NEW op \in L!Ops, Work(r, op) PROVE L!Next
      BY <2>4 DEF Work, L!Next
  <2>5. TimePasses => UNCHANGED limiter
      BY DEF TimePasses
  <2>6. WallClock \/ Crash => L!Next
      BY DEF WallClock, Crash, L!Next
  <2>7. UNCHANGED vars => UNCHANGED limiter
      BY DEF vars
  <2> QED BY <2>1, <2>2, <2>3, <2>4, <2>5, <2>6, <2>7 DEF Next
<1> QED BY <1>1, <1>2, PTL DEF Spec, L!Spec

=============================================================================
