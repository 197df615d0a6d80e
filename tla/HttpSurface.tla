---------------------------- MODULE HttpSurface ----------------------------
(***************************************************************************)
(* The HTTP surface of the router, task4_router/app.py with errors.py: a   *)
(* POST /v1/completions enters route() only with a key and a valid body,   *)
(* and whatever route() returns or raises becomes one response.            *)
(*                                                                         *)
(* The handler runs to its end whether or not the client still listens;    *)
(* the server's shutdown cancels it (CancelRoute), and then, as after a    *)
(* crash, the connection closes without a response.                        *)
(***************************************************************************)
EXTENDS ModelRouter

VARIABLE status   \* of each request: not sent, waiting, its HTTP status, closed

httpVars == <<vars, status>>

(* Mutation of StatusOf: a failed route is an error of the gateway.        *)
StatusOfBlunt(code) ==
    CASE code = "ok" -> "200"
      [] code = "RATE_LIMITED" -> "429"
      [] code = "UPSTREAM_ERROR" -> "502"
      [] code = "UPSTREAM_TIMEOUT" -> "503"
      [] code = "ALL_PROVIDERS_FAILED" -> "503"
      [] code = "INTERNAL_ERROR" -> "500"
      [] code = "cancelled" -> "closed"

(* errors.py, HTTP_STATUS; a cancelled handler answers nothing.            *)
StatusOf(code) ==
    CASE code = "ok" -> "200"
      [] code = "RATE_LIMITED" -> "429"
      [] code = "UPSTREAM_ERROR" -> "502"
      [] code = "ALL_PROVIDERS_FAILED" -> "503"
      [] code = "UPSTREAM_TIMEOUT" -> "504"
      [] code = "INTERNAL_ERROR" -> "500"
      [] code = "cancelled" -> "closed"

----------------------------------------------------------------------------
HttpInit == Init /\ status = [r \in Requests |-> "unsent"]

Becomes(r, s) == status' = [status EXCEPT ![r] = s]

(* 401, no bearer token; or 400, a body the model of the request rejects.  *)
TurnAway(r) ==
    /\ status[r] = "unsent"
    /\ Becomes(r, "400/401")
    /\ UNCHANGED vars

Enter(r) ==
    /\ status[r] = "unsent"
    /\ Arrive(r)
    /\ Becomes(r, "waiting")

(* When route() returns or raises, JSONResponse or one of the exception    *)
(* handlers answers before anything else can run.                          *)
Answer(r) == Becomes(r, IF pc'[r] = "done" THEN StatusOf(reply'[r]) ELSE status[r])

Proceed(r) == (Resume(r) \/ CancelRoute(r)) /\ Answer(r)

(* A crash closes the connections.                                         *)
CrashHttp ==
    /\ Crash
    /\ status' = [r \in Requests |-> IF status[r] = "waiting" THEN "closed" ELSE status[r]]

HttpNext ==
    \/ \E r \in Requests : TurnAway(r) \/ Enter(r) \/ Proceed(r)
    \/ \E r \in Requests, op \in L!Ops : Work(r, op) /\ UNCHANGED status
    \/ (TimePasses \/ WallClock) /\ UNCHANGED status
    \/ CrashHttp

(* The loop runs what is ready, wait_for ends every attempt, a worker takes*)
(* every job and every transaction ends.                                   *)
HttpSpec ==
    /\ HttpInit /\ [][HttpNext]_httpVars
    /\ \A r \in Requests : WF_httpVars(Resume(r) /\ Answer(r))
    /\ \A r \in Requests, op \in L!Ops : WF_httpVars(Work(r, op) /\ UNCHANGED status)
    /\ WF_httpVars(TimePasses /\ UNCHANGED status)

----------------------------------------------------------------------------
(* What a client may conclude from its status.  200: it is charged what    *)
(* the answer cost.  A refusal or a failure of the providers: it holds     *)
(* nothing of its budget, so it may try again; nobody was dialled if it    *)
(* was 400, 401 or 429, and time is all that went wrong if it was 504.     *)
StatusTrue ==
    \A r \in Requests :
        /\ status[r] = "200" /\ r \in L!Rows =>
              table[r].state = "committed" /\ table[r].tokens = ask[r].actual
        /\ status[r] = "200" => "success" \in OutcomesIn(attempts[r])
        /\ status[r] \in {"400/401", "429", "502", "503", "504"} => r \notin L!Rows
        /\ status[r] \in {"400/401", "429"} => attempts[r] = <<>>
        /\ status[r] \in {"502", "503", "504"} => attempts[r] # <<>> /\ "success" \notin OutcomesIn(attempts[r])
        /\ status[r] = "504" <=> status[r] \in {"503", "504"} /\
              OutcomesIn(attempts[r]) \subseteq {"timeout", "deadline_exhausted"}

(* Every call that came in is answered, or its connection is closed.       *)
EveryCallAnswered == \A r \in Requests : status[r] = "waiting" ~> status[r] # "waiting"
=============================================================================
