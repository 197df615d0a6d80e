------------------------- MODULE HttpSurfaceProofs -------------------------
(* What a client may conclude from its status, for any number of requests. *)
EXTENDS HttpSurface, ModelRouterProofs

(* The replies that end a route while the process lives.                   *)
Ends == {"ok", "cancelled", "INTERNAL_ERROR"} \cup GatewayErrors

(* A route is under way exactly while its client waits, and a status that  *)
(* was sent is that of the reply.                                          *)
StatusFits(r) ==
    /\ status[r] \in {"unsent", "400/401"} => pc[r] = "start"
    /\ status[r] = "waiting" <=> pc[r] \notin {"start", "done"}
    /\ status[r] \notin {"unsent", "400/401", "waiting", "closed"} =>
          /\ pc[r] = "done" /\ reply[r] \in Ends \ {"cancelled"}
          /\ status[r] = StatusOf(reply[r])

HttpInv ==
    /\ RouterInv
    /\ DOMAIN status = Requests
    /\ \A r \in Requests : StatusFits(r)

LEMMA StatusValues ==
    ASSUME NEW code \in Ends
    PROVE  /\ StatusOf(code) \notin {"unsent", "400/401", "waiting"}
           /\ StatusOf(code) = "closed" <=> code = "cancelled"
           /\ StatusOf(code) = "200" <=> code = "ok"
           /\ StatusOf(code) = "429" <=> code = "RATE_LIMITED"
           /\ StatusOf(code) = "502" <=> code = "UPSTREAM_ERROR"
           /\ StatusOf(code) = "503" <=> code = "ALL_PROVIDERS_FAILED"
           /\ StatusOf(code) = "504" <=> code = "UPSTREAM_TIMEOUT"
BY DEF Ends, GatewayErrors, StatusOf

(* A step of one route leaves the others, and ends with a reply if it ends.*)
LEMMA RouteStep ==
    ASSUME RouterInv, NEW r \in Requests, Resume(r) \/ CancelRoute(r)
    PROVE  /\ Others(pc, pc', r) /\ Others(reply, reply', r)
           /\ pc[r] \notin {"start", "done"} /\ pc'[r] # "start"
           /\ pc'[r] = "done" => reply'[r] \in Ends
<1>1. pc \in [Requests -> Stages] /\ reply \in [Requests -> Replies]
    BY DEF RouterInv, RouteTypes
<1>2. CASE NotReserved(r) \/ Committed(r)
    BY <1>1, <1>2 DEF NotReserved, Committed, GoTo, Decide, Others, Ends, GatewayErrors
<1>3. CASE Released(r)
  <2>1. reply[r] \in Replies \ {"none", "ok", "lost", "RATE_LIMITED"}
      BY <1>3, StandsNow DEF Released, Stands
  <2>2. pc[r] = "release" /\ GoTo(r, "done")
        /\ Decide(r, IF call[r] = "gone" THEN "INTERNAL_ERROR" ELSE reply[r])
      BY <1>3 DEF Released
  <2> QED BY <1>1, <2>1, <2>2 DEF GoTo, Decide, Others, Ends, Replies, GatewayErrors
<1>4. ASSUME NEW stage \in Stages \ {"start", "done"}, NEW all, NEW code, Moves(r, stage, all, code)
      PROVE  /\ Others(pc, pc', r) /\ Others(reply, reply', r)
             /\ pc'[r] \notin {"start", "done"}
    BY <1>1, <1>4 DEF Moves, Others
<1>5. CASE Reserved(r)
  <2>1. pc[r] = "reserve"
      BY <1>5 DEF Reserved
  <2>2. Others(pc, pc', r) /\ Others(reply, reply', r) /\ pc'[r] \in Stages \ {"start", "done"}
      BY <1>1, <1>5 DEF Reserved, Dial, TrySecondary, Exhaust, RaiseAndRelease, GoTo, Decide,
                        Others, Stages
  <2> QED BY <2>1, <2>2
<1>6. ASSUME NEW outcome \in Outcomes, Attempted(r, outcome)
      PROVE  /\ Others(pc, pc', r) /\ Others(reply, reply', r)
             /\ pc[r] \notin {"start", "done"} /\ pc'[r] \notin {"start", "done"}
  <2>1. pc[r] \in {"primary", "secondary"}
      BY <1>6 DEF Attempted
  <2>2. \/ GoTo(r, "commit") /\ UNCHANGED reply
        \/ \E records : Dial(r, "secondary", records)
        \/ \E code, records : RaiseAndRelease(r, code, records)
      BY <1>6 DEF Attempted, TrySecondary, Exhaust
  <2> QED BY <1>1, <2>1, <2>2 DEF Dial, RaiseAndRelease, GoTo, Decide, Others
<1>7. CASE NotCommitted(r)
    BY <1>1, <1>7 DEF NotCommitted, RaiseAndRelease, GoTo, Decide, Others
<1>8. CASE CancelRoute(r)
    BY <1>1, <1>8 DEF CancelRoute, RaiseAndRelease, GoTo, Decide, Others, Ends
<1> QED BY <1>2, <1>3, <1>5, <1>6, <1>7, <1>8 DEF Resume

LEMMA HttpStep == HttpInv /\ [HttpNext]_httpVars => HttpInv'
<1> SUFFICES ASSUME HttpInv, [HttpNext]_httpVars PROVE HttpInv'
    OBVIOUS
<1>0. RouterInv /\ DOMAIN status = Requests /\ \A r \in Requests : StatusFits(r)
    BY DEF HttpInv
<1>1. [Next]_vars
    BY DEF HttpNext, httpVars, Next, TurnAway, Enter, Proceed, CrashHttp
<1>2. RouterInv'
    BY <1>0, <1>1, RouterStep
<1>3. ASSUME NEW r \in Requests, TurnAway(r) PROVE HttpInv'
  <2>1. status' = [status EXCEPT ![r] = "400/401"] /\ status[r] = "unsent"
        /\ UNCHANGED <<pc, reply>>
      BY <1>3 DEF TurnAway, Becomes, vars, route
  <2> QED BY <1>0, <1>2, <2>1 DEF HttpInv, StatusFits
<1>4. ASSUME NEW r \in Requests, Enter(r) PROVE HttpInv'
  <2>1. /\ status' = [status EXCEPT ![r] = "waiting"] /\ status[r] = "unsent"
        /\ pc' = [pc EXCEPT ![r] = "reserve"] /\ reply' = reply /\ pc[r] = "start"
      BY <1>4 DEF Enter, Becomes, Arrive, GoTo
  <2>2. pc'[r] = "reserve" /\ Others(pc, pc', r)
      BY <1>0, <2>1 DEF Others, RouterInv, RouteTypes
  <2> QED BY <1>0, <1>2, <2>1, <2>2 DEF HttpInv, StatusFits, Others
<1>5. ASSUME NEW r \in Requests, Proceed(r) PROVE HttpInv'
  <2>1. /\ Others(pc, pc', r) /\ Others(reply, reply', r)
        /\ pc[r] \notin {"start", "done"} /\ pc'[r] # "start"
        /\ pc'[r] = "done" => reply'[r] \in Ends
      BY <1>0, <1>5, RouteStep DEF Proceed
  <2>2. status' = [status EXCEPT ![r] = IF pc'[r] = "done" THEN StatusOf(reply'[r]) ELSE status[r]]
      BY <1>5 DEF Proceed, Answer, Becomes
  <2>3. status[r] = "waiting"
      BY <1>0, <2>1 DEF StatusFits
  <2>4. StatusFits(r)'
    <3>1. CASE pc'[r] = "done"
      <4>1. status'[r] = StatusOf(reply'[r])
          BY <1>0, <2>2, <3>1
      <4> QED BY <2>1, <3>1, <4>1, StatusValues DEF StatusFits
    <3>2. CASE pc'[r] # "done"
        BY <1>0, <2>1, <2>2, <2>3, <3>2 DEF StatusFits
    <3> QED BY <3>1, <3>2
  <2>5. ASSUME NEW q \in Requests \ {r} PROVE StatusFits(q)'
      BY <1>0, <2>1, <2>2 DEF StatusFits, Others
  <2> QED BY <1>0, <1>2, <2>2, <2>4, <2>5 DEF HttpInv
<1>6. CASE CrashHttp
  <2>1. /\ pc' = [r \in Requests |-> IF pc[r] = "start" THEN "start" ELSE "done"]
        /\ reply' = [r \in Requests |-> IF pc[r] \in {"start", "done"} THEN reply[r] ELSE "lost"]
        /\ status' = [r \in Requests |-> IF status[r] = "waiting" THEN "closed" ELSE status[r]]
      BY <1>6 DEF CrashHttp, Crash
  <2> QED BY <1>0, <1>2, <2>1 DEF HttpInv, StatusFits
<1>7. CASE UNCHANGED <<pc, reply, status>>
    BY <1>0, <1>2, <1>7 DEF HttpInv, StatusFits
<1>8. ASSUME NEW r \in Requests, NEW op \in L!Ops, Work(r, op), UNCHANGED status PROVE HttpInv'
    BY <1>7, <1>8 DEF Work, route
<1>9. CASE (TimePasses \/ WallClock) /\ UNCHANGED status
    BY <1>7, <1>9 DEF TimePasses, WallClock, route
<1>10. CASE UNCHANGED httpVars
    BY <1>7, <1>10 DEF httpVars, vars, route
<1> QED BY <1>3, <1>4, <1>5, <1>6, <1>8, <1>9, <1>10 DEF HttpNext

(* The status and its consequences for the client's budget                 *)
(* (app.py:83-152, errors.py:42-65).                                       *)
THEOREM StatusNeverLies == HttpSpec => []StatusTrue
<1>1. HttpInit => HttpInv
  <2> SUFFICES ASSUME HttpInit PROVE HttpInv
      OBVIOUS
  <2>1. RouterInv /\ status = [r \in Requests |-> "unsent"]
        /\ \A r \in Requests : pc[r] = "start"
      BY RouterInit DEF HttpInit, Init
  <2> QED BY <2>1 DEF HttpInv, StatusFits
<1>2. HttpInv => StatusTrue
  <2> SUFFICES ASSUME HttpInv PROVE StatusTrue
      OBVIOUS
  <2> SUFFICES ASSUME NEW r \in Requests
               PROVE  /\ status[r] = "200" /\ r \in L!Rows =>
                            table[r].state = "committed" /\ table[r].tokens = ask[r].actual
                      /\ status[r] = "200" => "success" \in OutcomesIn(attempts[r])
                      /\ status[r] \in {"400/401", "429", "502", "503", "504"} => r \notin L!Rows
                      /\ status[r] \in {"400/401", "429"} => attempts[r] = <<>>
                      /\ status[r] \in {"502", "503", "504"} =>
                            attempts[r] # <<>> /\ "success" \notin OutcomesIn(attempts[r])
                      /\ status[r] = "504" <=> status[r] \in {"503", "504"} /\
                            OutcomesIn(attempts[r]) \subseteq {"timeout", "deadline_exhausted"}
      BY DEF StatusTrue
  <2>1. StatusFits(r) /\ Stands(pc[r], call[r], attempts[r], reply[r])
      BY StandsNow DEF HttpInv
  <2>2. L!LedgerAgrees
      BY DEF HttpInv, RouterInv, L!IInv
  <2>3. CASE status[r] \in {"unsent", "waiting", "closed"}
      BY <2>3
  <2>4. CASE status[r] = "400/401"
    <3>1. attempts[r] = <<>> /\ call[r] = "idle"
        BY <2>1, <2>4 DEF StatusFits, Stands
    <3> QED BY <2>2, <2>4, <3>1 DEF L!LedgerAgrees
  <2>5. CASE status[r] \notin {"unsent", "400/401", "waiting", "closed"}
    <3>1. pc[r] = "done" /\ reply[r] \in Ends \ {"cancelled"} /\ status[r] = StatusOf(reply[r])
        BY <2>1, <2>5 DEF StatusFits
    <3>2. /\ reply[r] \in {"ok"} \cup GatewayErrors => Explained(reply[r], attempts[r])
          /\ reply[r] = "ok" => call[r] = "committed"
          /\ reply[r] \in GatewayErrors => call[r] \in {"refused", "released"}
        BY <2>1, <3>1 DEF Stands
    <3>3. CASE reply[r] = "INTERNAL_ERROR"
        BY <3>1, <3>3 DEF StatusOf
    <3>4. CASE reply[r] = "ok"
      <4>1. status[r] = "200" /\ "success" \in OutcomesIn(attempts[r])
          BY <3>1, <3>2, <3>4 DEF StatusOf, Explained
      <4> QED BY <2>2, <3>2, <3>4, <4>1 DEF L!LedgerAgrees
    <3>5. CASE reply[r] \in GatewayErrors
      <4>1. r \notin L!Rows
          BY <2>2, <3>2, <3>5 DEF L!LedgerAgrees
      <4>2. CASE reply[r] = "RATE_LIMITED"
          BY <3>1, <3>2, <4>1, <4>2 DEF StatusOf, Explained, GatewayErrors
      <4>3. CASE reply[r] = "UPSTREAM_ERROR"
          BY <3>1, <3>2, <4>1, <4>3 DEF StatusOf, Explained, GatewayErrors, OutcomesIn
      <4>4. CASE reply[r] \in {"UPSTREAM_TIMEOUT", "ALL_PROVIDERS_FAILED"}
        <5>1. Explained(reply[r], attempts[r]) /\ attempts[r] # <<>>
            BY <3>2, <4>4 DEF GatewayErrors, Explained
        <5> QED BY <3>1, <4>1, <4>4, <5>1 DEF StatusOf, Explained
      <4> QED BY <3>5, <4>2, <4>3, <4>4 DEF GatewayErrors
    <3> QED BY <3>1, <3>3, <3>4, <3>5 DEF Ends
  <2> QED BY <2>3, <2>4, <2>5
<1> QED BY <1>1, <1>2, HttpStep, PTL DEF HttpSpec
=============================================================================
