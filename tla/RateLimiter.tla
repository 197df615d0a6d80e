---------------------------- MODULE RateLimiter ----------------------------
(***************************************************************************)
(* The per-tenant token budget of task4_router/rate_limiter.py: a SQLite   *)
(* table of reservations, the three transactions that change it, and the   *)
(* thread-pool jobs (asyncio.to_thread) through which a coroutine of the   *)
(* gateway runs them.                                                      *)
(*                                                                         *)
(* A transaction is one step: every one begins with BEGIN IMMEDIATE, which *)
(* takes the database's only write lock before its first read.  What is    *)
(* not atomic is everything around it.  The wall clock is sampled on the   *)
(* event loop, before the job is even queued; a job can wait behind others *)
(* for a worker; the coroutine that awaits it can be cancelled, which      *)
(* withdraws a queued job but leaves a running one to finish for nobody;   *)
(* and the process can die with rows on disk.                              *)
(***************************************************************************)
EXTENDS Integers, FiniteSets

CONSTANTS
    Requests,     \* calls of the gateway; each reserves at most once
    Keys,         \* API keys, the tenants
    Limit,        \* limit_tokens_per_minute
    Window,       \* window_seconds, in clock units
    Estimates,    \* the values a caller may pass as estimated_tokens
    MaxOverrun,   \* how far a bill may exceed the estimate
    Workers,      \* threads of the default executor
    MaxTime,      \* bound on the wall clock
    MaxStepBack   \* how far one adjustment may set the wall clock back

ASSUME RequestsAssumption == IsFiniteSet(Requests)
ASSUME LimitAssumption == Limit \in Nat
ASSUME WindowAssumption == Window \in Nat
ASSUME EstimatesAssumption == Estimates \subseteq Int
ASSUME OverrunAssumption == MaxOverrun \in Nat
ASSUME KeysAssumption == Keys # {}
ASSUME WorkersAssumption == Workers \in Nat \ {0}
ASSUME ClockAssumption == MaxTime \in Nat \ {0} /\ MaxStepBack \in Nat

VARIABLES
    table,     \* token_usage: row id -> row, for the rows that exist
    call,      \* where each request stands in the reserve/commit/release protocol
    ask,       \* what each request asked for, and what it was billed
    queued,    \* jobs handed to the executor and not started
    running,   \* jobs a worker thread is executing
    now        \* the wall clock, time.time()

vars == <<table, call, ask, queued, running, now>>

Time == 1 .. MaxTime
Ops == {"reserve", "commit", "release"}
Jobs == Requests \X Ops

CallStates == {"idle", "reserving", "held", "committing", "unwinding",
               "releasing", "committed", "released", "refused", "gone"}

(* The states in which a coroutine is suspended on a job, and that job.    *)
Awaited == {<<"reserving", "reserve">>, <<"committing", "commit">>,
            <<"releasing", "release">>}

(* The calls a live coroutine still has to settle.                         *)
Live == {"reserving", "held", "committing", "unwinding", "releasing"}

Row == [key : Keys, tokens : Nat, at : Time, state : {"reserved", "committed"}]

NoAsk == [key |-> CHOOSE k \in Keys : TRUE, tokens |-> 0, at |-> 1, actual |-> 0]

----------------------------------------------------------------------------
(* Queries.                                                                *)

Rows == DOMAIN table

(* SELECT SUM(tokens) over a set of rows: the number of token units held.  *)
Units(tab, ids) == UNION {{id} \X (1 .. tab[id].tokens) : id \in ids}
SumTokens(tab, ids) == Cardinality(Units(tab, ids))

(* Mutation of Counted: the window as BETWEEN cutoff AND the sample.       *)
CountedUpTo(tab, k, cutoff) ==
    {id \in DOMAIN tab : tab[id].key = k /\ tab[id].at \in cutoff .. cutoff + Window}

(* WHERE api_key = ? AND created_at >= cutoff: no upper end, so a sample   *)
(* that is out of date also counts the rows newer than itself.             *)
Counted(tab, k, cutoff) ==
    {id \in DOMAIN tab : tab[id].key = k /\ tab[id].at >= cutoff}

Used(tab, k, at) == SumTokens(tab, Counted(tab, k, at - Window))

(* Mutation of Cutoff: rows go while they still count, at the boundary.    *)
CutoffEarly(r) == ask[r].at - Window + 1

Cutoff(r) == ask[r].at - Window

(* What a refused client is told to wait: until the oldest row it was      *)
(* refused for leaves the window; nothing if there is no such row.         *)
RetryAfter(r) ==
    LET counted == Counted(table, ask[r].key, ask[r].at - Window)
        oldest == CHOOSE at \in {table[id].at : id \in counted} :
                     \A id \in counted : at <= table[id].at
    IN  IF counted = {} THEN 0 ELSE oldest + Window - ask[r].at

(* Mutation of RetryHeader: the body's number of seconds, without the one  *)
(* more that makes a closed window let go of the row.                      *)
RetryHeaderBare(r) == RetryAfter(r)

(* The Retry-After header, in whole seconds.                               *)
RetryHeader(r) == RetryAfter(r) + 1

Fits(r) == Used(table, ask[r].key, ask[r].at) + ask[r].tokens <= Limit

Keep(tab, ids) == [id \in ids |-> tab[id]]

Inserted(tab, id, row) == [i \in DOMAIN tab \cup {id} |-> IF i = id THEN row ELSE tab[i]]

----------------------------------------------------------------------------
Init ==
    /\ table = [id \in {} |-> <<>>]
    /\ call = [r \in Requests |-> "idle"]
    /\ ask = [r \in Requests |-> NoAsk]
    /\ queued = {}
    /\ running = {}
    /\ now = 1

(* The coroutine side: reserve(), commit() and release() hand a job to the *)
(* executor and suspend.  reserve() reads the clock here, not in the job.  *)
CallReserve(r) ==
    /\ call[r] = "idle"
    /\ \E k \in Keys, est \in Estimates :
          ask' = [ask EXCEPT ![r] = [key |-> k, tokens |-> est, at |-> now, actual |-> 0]]
    /\ call' = [call EXCEPT ![r] = "reserving"]
    /\ queued' = queued \cup {<<r, "reserve">>}
    /\ UNCHANGED <<table, running, now>>

CallCommit(r) ==
    /\ call[r] = "held"
    /\ \E actual \in 0 .. ask[r].tokens + MaxOverrun :
          ask' = [ask EXCEPT ![r].actual = actual]
    /\ call' = [call EXCEPT ![r] = "committing"]
    /\ queued' = queued \cup {<<r, "commit">>}
    /\ UNCHANGED <<table, running, now>>

(* The caller's finally: nothing was committed, so the hold goes back.     *)
CallRelease(r) ==
    /\ call[r] \in {"held", "unwinding"}
    /\ call' = [call EXCEPT ![r] = "releasing"]
    /\ queued' = queued \cup {<<r, "release">>}
    /\ UNCHANGED <<table, ask, running, now>>

(* Mutation of StartJob: the job stays in the queue, to be run again.      *)
StartJobTwice(r, op) ==
    /\ <<r, op>> \in queued
    /\ Cardinality(running) < Workers
    /\ running' = running \cup {<<r, op>>}
    /\ UNCHANGED <<table, call, ask, queued, now>>

StartJob(r, op) ==
    /\ <<r, op>> \in queued
    /\ Cardinality(running) < Workers
    /\ queued' = queued \ {<<r, op>>}
    /\ running' = running \cup {<<r, op>>}
    /\ UNCHANGED <<table, call, ask, now>>

(* The job of (r, op) ends; whoever still awaits it resumes with `result`. *)
Finish(r, op, result) ==
    /\ running' = running \ {<<r, op>>}
    /\ call' = IF <<call[r], op>> \in Awaited THEN [call EXCEPT ![r] = result] ELSE call
    /\ UNCHANGED <<ask, queued, now>>

(* Mutation of Grant: without the check for a negative estimate.           *)
GrantUnchecked(r) ==
    /\ <<r, "reserve">> \in running
    /\ Fits(r)
    /\ table' = Inserted(Keep(table, {id \in Rows : table[id].at >= Cutoff(r)}), r,
                         [key |-> ask[r].key, tokens |-> ask[r].tokens,
                          at |-> ask[r].at, state |-> "reserved"])
    /\ Finish(r, "reserve", "held")

(* _reserve_sync when the estimate fits: the rows that left the window go, *)
(* those of every tenant, and the hold is inserted.                        *)
Grant(r) ==
    /\ <<r, "reserve">> \in running
    /\ ask[r].tokens >= 0
    /\ Fits(r)
    /\ table' = Inserted(Keep(table, {id \in Rows : table[id].at >= Cutoff(r)}), r,
                         [key |-> ask[r].key, tokens |-> ask[r].tokens,
                          at |-> ask[r].at, state |-> "reserved"])
    /\ Finish(r, "reserve", "held")

(* RateLimitExceeded: rolled back, nothing evicted, nothing inserted.      *)
Refuse(r) ==
    /\ <<r, "reserve">> \in running
    /\ ask[r].tokens >= 0
    /\ ~Fits(r)
    /\ UNCHANGED table
    /\ Finish(r, "reserve", "refused")

(* ValueError on a negative estimate, before the database is opened.       *)
Reject(r) ==
    /\ <<r, "reserve">> \in running
    /\ ask[r].tokens < 0
    /\ UNCHANGED table
    /\ Finish(r, "reserve", "gone")

(* Mutation of RunCommit: INSERT OR REPLACE, the row comes back.           *)
RunCommitUpsert(r) ==
    /\ <<r, "commit">> \in running
    /\ table' = Inserted(table, r, [key |-> ask[r].key, tokens |-> ask[r].actual,
                                    at |-> ask[r].at, state |-> "committed"])
    /\ Finish(r, "commit", "committed")

(* Mutation of RunCommit: the row is stamped anew.                         *)
RunCommitRestamped(r) ==
    /\ <<r, "commit">> \in running
    /\ table' = [id \in Rows |->
                   IF id = r
                   THEN [table[id] EXCEPT !.tokens = ask[r].actual,
                                          !.state = "committed", !.at = now]
                   ELSE table[id]]
    /\ Finish(r, "commit", "committed")

(* UPDATE ... WHERE id = ?: a row that is no longer there stays away.      *)
RunCommit(r) ==
    /\ <<r, "commit">> \in running
    /\ table' = [id \in Rows |->
                   IF id = r
                   THEN [table[id] EXCEPT !.tokens = ask[r].actual, !.state = "committed"]
                   ELSE table[id]]
    /\ Finish(r, "commit", "committed")

(* Mutation of RunRelease: DELETE ... AND state = 'reserved'.              *)
RunReleaseReserved(r) ==
    /\ <<r, "release">> \in running
    /\ table' = Keep(table, {id \in Rows : id # r \/ table[id].state = "committed"})
    /\ Finish(r, "release", "released")

(* DELETE ... WHERE id = ?.                                                *)
RunRelease(r) ==
    /\ <<r, "release">> \in running
    /\ table' = Keep(table, Rows \ {r})
    /\ Finish(r, "release", "released")

(* sqlite3.OperationalError, the write lock not obtained in busy_timeout:  *)
(* the job ends without effect.  A failed commit sends its caller to the   *)
(* finally; a failed reserve or release ends the call.                     *)
FailJob(r, op) ==
    /\ <<r, op>> \in running
    /\ UNCHANGED table
    /\ Finish(r, op, IF op = "commit" THEN "unwinding" ELSE "gone")

(* The awaiting coroutine is cancelled.  A job nobody started is withdrawn *)
(* with its future; a running one carries on.  Cancelled in commit(), the  *)
(* caller still passes through its finally.                                *)
Cancel(r) ==
    /\ \E op \in Ops :
          <<call[r], op>> \in Awaited /\ queued' = queued \ {<<r, op>>}
    /\ call' = [call EXCEPT ![r] = IF @ = "committing" THEN "unwinding" ELSE "gone"]
    /\ UNCHANGED <<table, ask, running, now>>

(* The process dies and a new one opens the same file.                     *)
Crash ==
    /\ call' = [r \in Requests |-> IF call[r] \in Live THEN "gone" ELSE call[r]]
    /\ queued' = {}
    /\ running' = {}
    /\ UNCHANGED <<table, ask, now>>

(* The wall clock advances, or an adjustment sets it back.                 *)
Tick ==
    /\ now' \in {now + 1} \cup (now - MaxStepBack .. now - 1)
    /\ now' \in Time
    /\ UNCHANGED <<table, call, ask, queued, running>>

RunJob(r, op) ==
    \/ op = "reserve" /\ (Grant(r) \/ Refuse(r) \/ Reject(r))
    \/ op = "commit" /\ RunCommit(r)
    \/ op = "release" /\ RunRelease(r)
    \/ FailJob(r, op)

Next ==
    \/ \E r \in Requests : CallReserve(r) \/ CallCommit(r) \/ CallRelease(r) \/ Cancel(r)
    \/ \E r \in Requests, op \in Ops : StartJob(r, op) \/ RunJob(r, op)
    \/ Crash
    \/ Tick

Spec == Init /\ [][Next]_vars

----------------------------------------------------------------------------
(* Properties.                                                             *)

TypeOK ==
    /\ Rows \subseteq Requests
    /\ table \in [Rows -> Row]
    /\ call \in [Requests -> CallStates]
    /\ ask \in [Requests -> [key : Keys, tokens : Int, at : Time, actual : Nat]]
    /\ queued \subseteq Jobs
    /\ running \subseteq Jobs
    /\ now \in Time

(* The rows of one tenant inside the closed window that ends at t.         *)
InWindow(tab, k, t) ==
    {id \in DOMAIN tab : tab[id].key = k /\ tab[id].at \in t - Window .. t}

(* What of a row was agreed to: a bill less the overrun it may have.       *)
Covered(row) == IF row.state = "committed" THEN row.tokens - MaxOverrun ELSE row.tokens

Agreed(tab) == [id \in DOMAIN tab |-> [tokens |-> Covered(tab[id])]]

(* Whatever the order in which stale samples, clock adjustments, orphaned  *)
(* jobs and crashes interleave, the rows of one tenant stamped within any  *)
(* window of Window units never hold more than Limit tokens, and, where    *)
(* bills exceed their estimates, MaxOverrun more for each one settled: the *)
(* overrun of one call never makes room for that of another.  The code's   *)
(* check has no upper end, which is what makes late samples harmless here. *)
WindowBound ==
    \A k \in Keys, t \in Time : SumTokens(Agreed(table), InWindow(table, k, t)) <= Limit

(* What the ledger says of a call is what its caller was told: a call that *)
(* was refused or released leaves no row, whichever orphaned commit is     *)
(* still running; a committed call's row, while it lasts, carries the bill;*)
(* a held call's row carries the estimate.                                 *)
LedgerAgrees ==
    \A r \in Requests :
        /\ call[r] \in {"idle", "reserving", "refused", "released"} => r \notin Rows
        /\ call[r] = "committed" /\ r \in Rows =>
              table[r].state = "committed" /\ table[r].tokens = ask[r].actual
        /\ call[r] = "held" /\ r \in Rows =>
              table[r].state = "reserved" /\ table[r].tokens = ask[r].tokens

(* The strengthening that makes the two invariants above inductive: which   *)
(* jobs can be outstanding in each state of a call, that a job is queued or *)
(* running but not both, what a row holds, and that a bill about to be      *)
(* written does not exceed the estimate by more than MaxOverrun.            *)
JobsFit ==
    /\ queued \cap running = {}
    /\ \A r \in Requests :
          /\ <<r, "reserve">> \in queued \cup running => call[r] \in {"reserving", "gone"}
          /\ <<r, "commit">> \in queued \cup running =>
                /\ call[r] \in {"committing", "unwinding", "releasing", "released", "gone"}
                /\ ask[r].actual <= ask[r].tokens + MaxOverrun
          /\ <<r, "release">> \in queued \cup running => call[r] \in {"releasing", "gone"}

RowsMatch ==
    \A id \in Rows :
        /\ table[id].key = ask[id].key
        /\ table[id].at = ask[id].at
        /\ table[id].tokens = IF table[id].state = "reserved" THEN ask[id].tokens
                                                            ELSE ask[id].actual

(* A hold is granted once: nothing is on record while the job that would   *)
(* grant it has not run, orphaned or not.                                  *)
GrantedOnce ==
    \A r \in Requests : <<r, "reserve">> \in queued \cup running => r \notin Rows

IInv == TypeOK /\ JobsFit /\ RowsMatch /\ LedgerAgrees

(* While the clock only advances, no tenant's request makes another row    *)
(* disappear that still counts: a row goes by its own release, or once it  *)
(* has left the window.                                                    *)
HoldsSurvive ==
    [][\A id \in Rows : id \notin Rows' =>
           <<id, "release">> \in running \/ table[id].at < now - Window]_vars

(* The window as its docstring describes it: the calls a tenant was        *)
(* charged for within any Window units, rows already evicted included, stay*)
(* within Limit.                                                           *)
RollingCharge ==
    \A k \in Keys, t \in Time :
        LET billed == {r \in Requests : /\ call[r] = "committed"
                                        /\ ask[r].key = k
                                        /\ ask[r].at \in t - Window .. t}
        IN  Cardinality(UNION {{r} \X (1 .. ask[r].actual) : r \in billed}) <= Limit

(* A client that waits as long as the header of its refusal says, while    *)
(* nobody else asks, is measured against fewer rows the next time.         *)
RetryHelps ==
    \A r \in Requests :
        LET counted(at) == Counted(table, ask[r].key, at - Window) IN
        <<r, "reserve">> \in running /\ ~Fits(r) /\ counted(ask[r].at) # {} =>
            counted(ask[r].at + RetryHeader(r)) # counted(ask[r].at)

(* The table keeps the promise stated by TokenBudget.                      *)
Budget == INSTANCE TokenBudget WITH ledger <- table, Overrun <- MaxOverrun
KeepsBudget == Budget!Spec

=============================================================================
