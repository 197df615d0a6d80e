# TLA+ models of mcp-llm-gateway-suite

The repository holds four Python services around language models: a billing
MCP server (`task1_mcp_server`), an authorising proxy in front of MCP servers
(`task2_mcp_gateway`), a redacting streaming proxy (`task3_streaming_guardrail`)
and a model router with a token budget, a circuit breaker and failover
(`task4_router`). This directory models the parts whose correctness depends on
order: what two requests, a thread pool, a clock and a restart can do to each
other, a retry to its first try, and a chunk boundary to a pattern. Modules
parse with SANY, are checked with TLC on small instances, and the theorems are
checked by TLAPS for every value of the constants.

    tlc -workers 2 -config limiter.cfg MCRateLimiter     # a run
    tlapm RateLimiterProofs.tla                          # a proof

## Inventory

| part | state it keeps | operations | meets |
|---|---|---|---|
| token budget, `rate_limiter.py` | SQLite table `token_usage`, on disk | `reserve`, `commit`, `release`; reads `usage`, `row_count` | router, through `asyncio.to_thread` |
| circuit breaker, `router.py:69-117` | failure count, `opened_at`, probe slot, in memory | `allows_request`, `record_success`, `record_failure`, `abandon_probe` | router, between two awaits |
| model router, `router.py:147-319` | per request: attempts, deadline, whether committed | `route`, `_attempt` | budget, breaker, two providers |
| HTTP surface, `app.py`, `errors.py` | none | `/v1/completions`, `/v1/usage`, error handlers | router |
| agent gateway, `mcp_gateway.py`, `policy.py`, `auth.py` | none between requests | authenticate, authorise, forward, batch, filter `tools/list` | agent, downstream server |
| stream redactor, `redactor.py` | per stream: buffer, left context, closed | `feed`, `flush` | streaming gateway |
| streaming gateway, `llm_gateway.py` | per stream: the redactor, last frame, flushed | `redact_sse_stream`, `completions` | client, model provider |
| billing store, `store.py` | balances, refunds, idempotency keys, in memory under a lock | `get_customer`, `create_refund` | MCP server |
| MCP server, `server.py`, `schemas.py` | none of its own | `tools/list`, `tools/call` | agent, store |
| stdio guard, `stdio_guard.py` | file descriptors 0-2 and the wire, `sys.stdout` | `reserve_stdout_for_protocol` | MCP server, any library or child that writes |
| test doubles, benchmark, purity check | scripted | - | - |

What is hard, and what makes each part correct:

* **Budget.** `reserve()` samples the wall clock on the event loop and hands a
  job to a thread pool; by the time the transaction runs, others with newer
  samples may have run and evicted rows. A caller can be cancelled while its
  job is queued (it is withdrawn) or running (it finishes for nobody). The
  process can die with rows on disk. Correct: no window ever holds more than the
  limit, no row that still counts is lost, the ledger agrees with what callers
  were told.
* **Breaker.** Each method is atomic on the event loop, but an attempt reports
  long after it was admitted. Correct: the probe slot is never leaked, a probe
  decides alone, a recovered primary is used again.
* **Router.** Settles a reservation on every path: success, client error,
  failover, both failed, deadline exhausted, commit failed, cancelled at each
  await, process restarted. Correct: charge and answer agree, the error code
  follows from the attempts, attempts stay within the deadline, every request
  ends.
* **HTTP surface.** Whatever `route()` returns or raises becomes one status.
  Correct: what a client may conclude from its status about its budget is true,
  and every call is answered or its connection closed.
* **Agent gateway.** Ordered rules and checks, then one call downstream, or a batch of
  them with failures in between. Correct: what is denied is never forwarded;
  one answer per entry that has an id, in order.
* **Redactor and streaming gateway.** Correct: for every way to cut a text into
  chunks the output equals the redaction of the whole; the buffer is bounded;
  the tail is never lost when a stream ends, and a connection that drops leaves no
  part of a match with the client; several choices share a stream.
* **Billing store.** Retries with keys. Correct: one refund per key, the balance
  is what was granted minus what was refunded, a conflicting reuse changes
  nothing.
* **Stdio guard.** Four system calls, each of which may fail, replace the
  descriptors of a process in which anything may print at any time. Correct:
  nothing but the transport's frames reaches the client, every answer does, and
  no child keeps the pipe open.

## Modules

| module | what it is |
|---|---|
| `TokenBudget` | what the budget promises: a ledger in which the rows of a tenant inside any window fit the limit, changed only by admitting, settling and giving back |
| `RateLimiter` | the table, the thread-pool jobs and the callers of `rate_limiter.py` |
| `CircuitBreaker` | the breaker and the attempts that use it |
| `ModelRouter` | `route()`, composed with `RateLimiter` and `CircuitBreaker` through `INSTANCE` |
| `HttpSurface` | `POST /v1/completions` around `ModelRouter`: from a request to its status |
| `BillingServer` | the refund store behind `tools/call`, and the agent that retries |
| `StdioGuard` | the descriptors of the billing server's process, and who writes to them |
| `BillingProcess` | the two composed: calls are answered over those descriptors |
| `AgentGateway` | one HTTP request, single or batch, through the authorising proxy |
| `StreamRedactor` | the redaction algorithm of `redactor.py`, as operators |
| `SseStream` | `redact_sse_stream` and the stream around it, over `StreamRedactor` |
| `RateLimiterProofs`, `CircuitBreakerProofs`, `ModelRouterProofs`, `HttpSurfaceProofs`, `BillingServerProofs`, `BillingProcessProofs`, `AgentGatewayProofs`, `SseStreamProofs` | theorems about them |
| `MC*` | constants and symmetry sets of the instances TLC checks |

### RateLimiter

`table` maps row ids to rows; a row's id stands for the request that reserved it.
`call` is where the coroutine of each request stands, `ask` its arguments and the
clock sample it took, `queued` and `running` the jobs handed to the executor,
`now` the wall clock. `CallReserve`, `CallCommit` and `CallRelease` are the
`async` methods up to their await; `StartJob` is a worker picking up a job;
`Grant`, `Refuse`, `Reject`, `RunCommit` and `RunRelease` are the `_sync` methods,
each one step because `BEGIN IMMEDIATE` takes SQLite's only write lock before the
first read; `FailJob` is the lock not obtained within `busy_timeout`; `Cancel`,
`Crash` and `Tick` are the environment. `Units` counts tokens as a set, so that
sums need no recursion and the provers can compare them.

The code's queries are kept as they are: the window check counts
`created_at >= cutoff` with no upper end, and the eviction deletes the rows of every
tenant older than the *reserving request's* cutoff. `RetryAfter` is what a refusal says of the
oldest row it was refused for, and `RetryHeader` what `app.py` makes of it. A bill may
exceed its estimate by up to `MaxOverrun`; `commit()` writes it unchecked, as the code does.

### CircuitBreaker

`failures`, `since` (time since `opened_at`, or `None`) and `probeInFlight` are the
dataclass; both counters saturate at the constants they are compared with. `dial`
and `age` are the attempts that are out, as what and for how long. An attempt is cut
off after `AttemptTimeout`, so `TimePasses` is disabled while one is due.

### ModelRouter

An action is what `route()` does between two awaits. `Reserved` runs from the
resumed `reserve()` to the first provider call (or, if nothing is left of the
deadline, to the `release()` in the `finally`), `Attempted` from a provider's outcome
to the next provider, `commit()` or `release()`; each includes the steps of the
limiter and the breaker that the code takes there. `CancelRoute` cancels at whatever
await the task is suspended on. `Crash` restarts the process: rows survive, the
breaker is new, requests in progress are lost. A provider is external: any outcome
`_attempt` distinguishes, at any time up to its deadline.

### HttpSurface

`status` is what a client has: nothing sent, a connection that waits, an HTTP status, or
a connection that was closed. `TurnAway` is the key or the body that is refused before
`route()`; `Proceed` and `Answer` are the step in which `route()` ends and the response or
one of the exception handlers answers, which nothing can come between. `StatusOf` is
`errors.py`; an error that is not the gateway's own is a 500. Shutdown cancels handlers
and a crash closes connections; a client that goes away does neither.

### BillingServer

`balance`, `refunds` and `byKey` are the store; a refund's id is the call that made it.
`sent`, `waiting` and `answers` are the agent and the wire: an intent may be sent
again while its first try is on its way or its answer is lost, and the calls are
answered in any order. `create_refund` holds one lock from its first line to its last,
and `call_tool` awaits nothing on the way, so a call is one step; each of its ways out is
an action, guarded by what the code asked before it: `Replay`, `Conflict`, `NotFound`,
`NotPermitted`, `Refund`, in that order, after `InvalidParams` (`Handle`). The amounts are cents.

### StdioGuard and BillingProcess

`fd` maps the open descriptors to what each is open on, `inheritable` says which of them
survive an exec, `out` is the descriptor `sys.stdout` writes to and `pending` its buffer.
`Flush`, `DupWire`, `Divert`, `Rebuild` or `FallBack`, `Return` are
`reserve_stdout_for_protocol` one call of the operating system at a time; `Fails` is an
`OSError` of the first two, which nobody catches, so the import of `server.py` fails.
`Skip` is the escape hatch `BILLING_MCP_DISABLE_GUARD`. From then on `PrintLine`,
`RawWrite`, `Spawn` and `ChildWrites` may happen at any time, chaos mode being one such
sequence. Bytes are kinds: frames of the transport, strays, and what was printed before
the guard ran, which may legitimately end on either side. `BillingProcess` joins `Handle`
and `WriteFrame` in one step: a process that dies between them takes the store with it.

### AgentGateway

The gateway keeps nothing between requests, so a behaviour is one request. `config`,
`role`, `batch` and `body` are its input; `pc` and `at` are where the handler is;
`calls` is what the downstream was sent and what became of it, `answers` what goes
back. A header and a token are the role they resolve to; a method or tool name is a
spelling, and `Folded` the form the gateway judges. `Rules` is `prefix_roles`, in order:
the first rule whose prefix a folded name begins with decides (`Governs`). `Verdict` is
`authorize()`. `Barred`, which the properties use, is written from the policy alone: a name
the first rule that covers it keeps from the role, or that no rule covers while the default is
to refuse. The downstream settles a call with any outcome the handler tells apart; its effect is in
`calls` from the moment it is sent. A single message is answered with the downstream's own HTTP
status (`Statuses`), a batch is not. What no `except` catches ends in `Raise` (`Escapes`): a `tools/list` whose
result cannot be filtered and, for a single message only, a body nested too deep to decode. `Due` is the answer an
entry of a batch is owed, outcome by outcome; where it is not that of `SingleAnswer` the two paths differ. `Sendable` and `Answerable` are the entries of a batch that a call
and an answer are due to, `InOrder` that a sequence has one of each of them, in their order.

### StreamRedactor and SseStream

A redactor is a record of buffer and left context; `Feed` and `Flush` are the methods.
The five patterns are scaled to two that keep what the algorithm has to
tell apart: an address, with lengths within bounds and no fences, and a card, a greedy
run of digits that spaces may separate, fenced against further digits, checked after it
matched, and left by one character if the check fails. The longest match is 5, so the
hold-back and the context are 6 where the code has 400. `MatchEnd` is where the pattern that
matches at a place ends, `Piece` what becomes of one character; the scan of `Matches`, the output of
`RedactRange` and the loop over the choices in `Frame` are recursive functions over positions.
`BoundsAssumption` is all that is asked of the two lengths, that each is no less than a match
(the hold-back longer). `SseStream` has one action per
kind of line: `Frame` (one `Turn` for each choice), `Usage`,
`Done`, for the end `Close` and `Drop`, and `Unstreamed` for the answer that comes whole
(`stream` false) and is redacted in one pass, unless its content is no string, or, after a failure
of the upstream, refused (`UnstreamedFails`). `sent` and `got` are the texts of each
choice before and after; `late` is what the provider sent after the flush.

## Runs

| run | bounds | shows |
|---|---|---|
| `limiter` | 2 requests, 2 tenants, limit 2, estimates -1, 1, 2, bills up to 1 above them, window 1, clock 1..3, 2 workers | `WindowBound`, `LedgerAgrees`, `GrantedOnce`, `HoldsSurvive`, `RetryHelps`, the inductive invariant, and that the limiter implements `TokenBudget` |
| `limiter_rolling` | 3 requests, 2 tenants, limit 1, clock 1..4 | violated: charges within a rolling window can exceed the limit |
| `breaker` | 4 requests, threshold 3, recovery 4, attempts up to 3 | `SlotOwned`, `ProbeAlone`, the inductive invariant, and the two liveness properties |
| `breaker_straggler` | 3 requests, threshold 2 | violated: an open breaker stays open for `recovery_time_s` |
| `router` | 2 requests, limit 1, clock 1..2, threshold 1, attempts and deadline of 2, one cancellation, restarts | `ChargedIffAnswered`, `AnswerExplained`, `AttemptsCapped`, `SlotInRoute` |
| `router_live` | over HTTP: 2 calls, 1 worker, no total deadline, one cancellation, restarts | `StatusTrue`, and every call is answered or closed |
| `router_cancelled` | 2 requests, one cancellation | violated: a cancelled request gives its hold back |
| `billing` | 7 intents, two of them sent twice, 2 customers, one process from its start to its end | `Balanced`, `OncePerKey`, `AnswersTrue`, `VerdictStable`, `PureWire`, `HangUpSeen`, `AnswersSeen`, and both inductive invariants |
| `gateway` | every body of up to 3 entries of 8 kinds, 2 roles and none, every configuration, two rules that overlap | `DeniedNeverSent`, `EveryEntrySent`, `AnswersInOrder`, `AnswersDue` |
| `gateway_odd_list` | the same | violated: one bad entry does not take down the batch |
| `sse` | one choice, texts up to 7 of 4 characters, in chunks up to 2 or whole, hold-back 6, one late chunk, connections that drop | `RedactedAsWhole`, `HeldForAMatch`, `EndsComplete` |
| `sse_choices` | two choices, texts up to 3 | violated: each choice is redacted as a whole and sent as itself |

Why the bounds are enough. Two requests of one tenant compete for the limit, and a
request of another tenant evicts; three requests are needed only where one tenant's
two charges are separated by another's eviction. With a window of one unit and a
clock of three, a row can be inside, at the edge of, and outside a window, and a
sample can be out of date by more than the window. In the router, a threshold of one
reaches all three breaker states with two requests (and the initial states include
a breaker already open, by earlier traffic); a deadline equal to the attempt timeout
lets it run out before, during and between the two attempts. The intents of `billing` are chosen for what
can disturb each other: two that together exceed a balance, one that reuses a key for
another customer, one without a key, and one for each refusal; the kinds of bytes and the
places a descriptor can point to are all there are, so the guard's part has no bound.
`gateway` has one message for each branch of `authorize()`, a status of success and one of failure, a tool under two rules that
disagree, and three places, so that an entry has one before and one after it. In `sse` a text of 7 is longer than a match and than the hold-back, so that the cap
is reached, context is dropped, and a match begins before it. `MaxCancels` bounds
only how many cancellations a run contains. The theorems remove the bounds for the
limiter, the breaker, the router and its HTTP surface, the store, the gateway and its batches, and
for the texts, chunks and choices of a stream.

The bounds, by name: `MaxTime` (wall clock), `MaxStepBack` (clock adjustments; 0 in
the runs, arbitrary in `LedgerCorrect`, `WindowNeverExceeded` and
`ImplementsBudget`), `MaxOverrun` (bill above estimate; 1 in `limiter`, 0 in the runs of the
router, arbitrary in the theorems), `MaxCancels`,
`MaxTries` (times an intent is sent), `MaxEntries` (of a batch), `MaxText` and `MaxChunk`
(characters of a choice and of a frame);
`failures`, `since` and `spent` saturate one value past the last that any guard can
tell apart, and `spent` is no longer counted once no attempt can follow.

### Fairness

`CircuitBreaker!FairSpec`: an attempt that is out comes back, because
`asyncio.wait_for` ends it; monotonic time advances; and clients go on sending
requests, which is an assumption about them. Nothing is assumed about which way an
attempt ends: `ClosesOnceHealthy` assumes, in the property itself, that failures and
cancellations stop. `HttpSurface!HttpSpec`: the event loop runs what is ready (a route that
can resume does, and its answer is sent), a free worker takes a queued job, a running
transaction ends (`busy_timeout` bounds its wait for the lock), time passes. Arrivals,
cancellations, restarts and what clients send are not fair.

## Where code and documentation differ

* `limiter_rolling`. The limiter is documented as a "sliding window over a rolling
  60-second period". Request A samples the clock and waits in the pool; B, of another
  tenant, samples later, runs first and evicts a row of A's tenant that is still inside
  A's window; A is then admitted. Rows *on the table* never exceed the limit
  (`WindowBound`, proved), but calls *charged* within one window do. The skew needed is
  the age of A's sample, so the excess is confined to the edge of the window.
* `breaker_straggler`. "The primary is skipped entirely for `recovery_time_s`": the
  success of an attempt admitted before the breaker opened closes it at once. Failures
  stamp `opened_at` anew in the same way. With attempts shorter than the recovery time
  (the defaults are 3 s and 30 s) no straggler is left once the breaker is half-open:
  that is `ProbeAlone`, proved.
* `router_cancelled`. "A reservation that never became a billable call is given back":
  `reserve()` is awaited outside the `try`, and cancelling an `asyncio.to_thread` await
  does not stop a job that is running, so its row stays until it leaves the window.
  The `release()` of the `finally` is awaited too, and a cancellation there withdraws its job while it is
  queued. `CancelledGivesBack` speaks of both, and the run stops at the first.
* `gateway_odd_list`. "One bad entry must not take down the whole batch": with the tool
  list filtered, an answer to `tools/list` whose result is not an object (`null`, say) makes
  `filter_tools_response` raise, after the `try` that guards the entry, and the answers of
  all entries are lost, of calls that took effect too.
* `sse_choices`. "Every choice, not just choices[0]": one redactor serves all choices of a
  response. What it holds back of one choice is emitted with the next content, whichever
  choice that is of, or at the end with the first choice of the last frame; and a
  pattern cut across two frames of a choice is missed when another's text comes between.

Not checked by a run of its own:

* "Same failure handling as the single-message path"
  (`mcp_gateway.py:461`): an exception that is neither a timeout nor the transport's is an internal error to a
  single message (`:379-387`) and an unavailable upstream to an entry of a batch (`:473-478`). Two more
  outcomes differ. A downstream that answers with a stream has it passed on by the one (`:393`) and is
  unavailable to the other, which asks it for JSON; and a body nested too deep, whose `RecursionError`
  the one does not catch (`:403-405`, where the request's own body is guarded against it, `:322`), is an
  unavailable upstream to the other. `AnswersDue` states all three (`Due`), and that among what is answered there is no fourth.
* A connection that drops raises out of the loop over the lines, so that the flush after it,
  whose comment speaks of "a dropped connection" (`llm_gateway.py:212`), is not reached and
  the held tail is lost (`Drop`). `EndsComplete` is about the other ends; what
  `RedactedAsWhole` shows of this one is that no part of a match was left with the client.
* `total_deadline_s` "caps the whole operation" (`router.py:29-30`): only the attempts are cut
  off (`AttemptsCapped`). `reserve()`, `commit()` and `release()` can outlast it;
  `EveryCallAnswered` shows that they end.
* `filter_tools_response` is to "drop tools the caller could never call"
  (`mcp_gateway.py:282`): a listed tool whose name is malformed, which `authorize()` refuses
  to everybody, is still shown. `Listed` in the run holds well-formed names only.
* "Non-streaming requests still get redacted, just in one pass" (`llm_gateway.py:243`): content that is
  no string (a list of content blocks, say) is forwarded as it is (`:296`), while a stream drops it,
  because it "must not be forwarded verbatim" (`:171`). In the model neither has a text (`TextOf`).
* "Pass SSE through without buffering it" (`mcp_gateway.py:391`): `forward` is a plain `post`, which reads the
  whole answer before the handler sees it. What a client then gets of the stream is left to `httpx`; the
  model says only that it was passed on, with the downstream's status. A tool list inside it is not filtered.
* The `--unguarded` check of `verify_stdout_purity.py` is to fail if the server stays clean
  (`:23-24`); it counts markers missing from stderr as well, so it passes then too.

## Proofs

`RateLimiterProofs`, for any finite set of requests and any limit, window, estimates,
workers and clock:

* `LedgerCorrect`: `Spec => [](TypeOK /\ LedgerAgrees)`. `LedgerAgrees` is not inductive:
  an orphaned commit that runs after a release must find no row, and a bill must be
  the one recorded. `IInv` adds which jobs can be outstanding in each state of a call,
  that a job is queued or running but not both (`JobsFit`), and that a row holds what its
  request asked for or was billed (`RowsMatch`). `InvInit` and `InvStep` are the two
  halves, one step per action.
* `JobsAccountedFor`: `Spec => []IInv`, that invariant itself. `LimiterTypes`: `Spec => []TypeOK`.
* `WaitingHelps`: `Spec => []RetryHelps`. The row that the header counts from is the oldest of a
  finite set of stamps, and it is out of the window that begins when the header runs out.
* `WindowNeverExceeded`: `Spec => []WindowBound`. Within any window the rows of a tenant hold
  at most `Limit`, and `MaxOverrun` more for each row that is settled: `Agreed` counts a row
  at what was agreed to, its tokens less the overrun a bill may have (`Covered`). Only
  `Grant` adds tokens, and what it counts is no less than what was agreed. For a window that
  ends at or after the new stamp, every row in it is counted by the code's check, since that
  has no upper end; a window that ends before it does not contain the row. The other actions
  shrink every window (`WindowShrinks`). With no overruns this is the plain limit.
* `HoldsNeverLost`: while the clock does not go back, `Spec => HoldsSurvive`, because every
  sample is then no later than `now` (`StampsPastStep`).
* `ReservedOnce`: `Spec => []GrantedOnce`, no row is there while the job that would insert it
  has not run.
* `ImplementsBudget`: `Spec => Budget!Spec` with `ledger <- table`, `Overrun <- MaxOverrun`.
  `Grant` maps to an admission, `RunCommit` to a settlement, `RunRelease` to giving back, the
  rest to stutters; `GrantedOnce` shows that an admission never overwrites a row.

`CircuitBreakerProofs`, for any requests, threshold and times:

* `SlotNeverLeaks`: `Spec => [](TypeOK /\ OpenByCount /\ SlotOwned)`, with `StragglersAge`
  carried along; `BreakerTypes` is its first conjunct.
* `ProbeDecidesAlone`: if `AttemptTimeout < RecoveryTime`, `Spec => []ProbeAlone`. A request
  admitted while the breaker was closed has been out for at least as long as it has been
  open (`StragglersAge`), so none is left when it turns half-open (`HalfOpenEmpty`).
  `BreakerFits` is the whole invariant.

`ModelRouterProofs`, for any requests, limit, window, clock, threshold, deadline and number of
cancellations (`RouterAssumption`):

* `ChargeMatchesAnswer`, `AnswersExplained`, `DeadlineKept`, `SlotStaysInRoute`, `RouterTypes`: the five
  invariants of the `router` run. `RouterInv` is inductive: the limiter's `IInv`; for every
  request, that its stage, its call of the limiter, its attempts and its reply fit together
  (`Stands`: a route in `commit` has an attempt that succeeded, one in `release` is about to
  raise, one that is done waits for no job); for the breaker, that only a request at the primary
  is known to it and the slot is the slot of one (`SlotHeld`). The limiter's half is not proved
  again: every action takes a step of the limiter, and `LimiterStep` cites
  `RateLimiterProofs!InvStep`, after lemmas that two instances of one module agree (`Same*`). An
  action of a route is a move of one request (`Moves`, `MoveKeeps`); what `route()` does between two
  awaits (`Dial`, `RaiseAndRelease`, `Exhaust`) has its move in a lemma each, and `EndExplained`
  shows that the records and the code of a route that ends fit.
* `RouterIsLimiter`: `Spec => L!Spec`, so the theorems of the limiter hold of the router.

`HttpSurfaceProofs`: `StatusNeverLies`, `HttpSpec => []StatusTrue`. A route is under way exactly while its
client waits, and a status that was sent is that of the reply (`StatusFits`); the rest is `RouterInv`.

`BillingServerProofs`, for any customers, balances, intents and numbers of retries:

* `RefundedOnce`, `AnswersNameTheirRefund`, `RetriesAgree`: `Spec => []OncePerKey`, `Spec => []AnswersTrue`
  and, with it, `VerdictStable`. None of them is inductive. `IInv` adds that a key is bound
  to the refund made with it and a refund is on record as its call asked for it (`KeysBound`),
  that a call is answered once (`AnsweredOnce`), and that an answer goes on being right
  (`AnswersLast`): a refusal is final, since a balance only shrinks and a key, once bound,
  stays with its refund; so no later try of a keyed intent succeeds where one was refused.
* `MoneyConserved`: `Spec => [](TypeOK /\ Balanced)`. The cents refunded to a customer are a finite
  set, and `Refund` adds a part disjoint from what is there (`BalancedStep`). `InvAlways` is the
  whole invariant, `BillingTypes` its types.

`BillingProcessProofs`, for the same constants:

* `ProcessIsServer`: `ProcessSpec => Spec`; the process takes steps of the server or stutters.
* `GuardInvariant`, `WireStaysPure`, `ClientSeesHangUp`: `GuardIInv` says what every descriptor is open
  on at each step of the start-up; purity and the end-of-file follow.
* `EveryAnswerSeen`: `ProcessSpec => []AnswersSeen`; a call is answered only while the wire is open on
  the client.

`AgentGatewayProofs`, for any roles, rules, spellings, messages and length of a batch:

* `DenialHolds`: `Spec => []DeniedNeverSent`. `CallsJudged` is carried along: calls are well
  formed, and while one is awaited there is a last one to settle. `DeniedNeverSent` is stated
  with `Barred`; `AllowedNotBarred` shows that what the ordered rules let in is not barred.

* `BatchSentWhole`, `BatchAnsweredWhole`, `BatchAnswersDue`: `EveryEntrySent`, `AnswersInOrder`,
  `AnswersDue`. They speak of the end of a batch, and `BatchSoFar` (`BatchProceeds`) of the way there: up to the
  entry at hand, what was sent and what was answered are what was due, in order, and a call that is
  awaited is the last one and this entry's. `BatchInv` joins them; one lemma per step of the handler
  shows what it appends, or that it appends nothing because nothing is due. That `authorize()` lets
  in just what `MaySend` says is `AllowedIffMaySend`. `AnswersDue` exempts no outcome: it says what a batch
  answers where the single-message path answers otherwise, too. `GatewayTypes` is the type invariant.

`SseStreamProofs`, for any hold-back longer than a match, any left context at least as long as one, any choices, and
texts and chunks of any length (`BoundsAssumption`, `IndicesAssumption`, `TextsAssumption`):

* `StreamRedactsAsWhole`: `Spec => []RedactedAsWhole`. However the text was cut, what is out, with
  what a flush would add, is the redaction of all that came.
* `HoldbackIsBounded`: `Spec => []HeldForAMatch`, and from it `BufferIsBounded`: the buffer stays below
  the hold-back plus the longest match, for a response of any length.
* `StreamEndsComplete`: if there is one choice, `Indices = {0}`, `Spec => []EndsComplete`. With several it
  is false even for a choice that came alone: the tail goes to the first choice of the last frame,
  or to choice 0 after a frame without choices (compare `sse_choices`).
* `StreamTypes`: the type invariant.

The argument, in the order of the module:

1. *Induction over positions.* The library's induction theorems take an operator, so the
   least counterexample stands in for them: `Least` and `Greatest` from well-founded `<`, `Upward` and
   `Downward` for sets closed under a step. With them each recursive function is shown to exist and
   to unfold (`ScanExists`, `OutExists`, `TurnsExist`).
2. *The scan without recursion.* `IsScan(t, a, b, M)`: the members of `M` are matches of the text between
   `a` and `b`, no two overlap, and no match begins at a place that none of them covers. `Matches` is
   such a set (`MatchesScan`), and two such sets are compared place by place (`ScanSame`).
3. *A match depends on text nearby.* The redactor sees only a suffix of the stream: `MatchShift` says that
   what matches at a place is the same there, if one character before it is kept. The text grows:
   `MatchKept` says that more text changes nothing at a place that is not `Open`, that is, from which
   characters a match may consist of run to the end. `HoldbackFacts`: every open place is held back.
   `PullBackFacts`: the cut is put where no match straddles it (`Clean`) and never before what is out.
4. *What is out joins.* `OutJoins` puts two stretches of output together at a clean cut; `Before` and
   `After` compare what is out, and what the redactor adds, with the one-pass output, and `Emitted`
   combines them.
5. *The invariant.* `Settled(t, r, out, p)`: the redactor holds `t` from `p + 1` on and enough before it
   (`Kept`), no place up to `p` is open, the cut is clean, and `out` is the redaction up to `p`.
   `RedactedAsWhole` alone is not inductive, since it does not say why more text cannot change what
   is out. `SettledFirst` and `Fed` keep `Settled`, `Flushed` ends it. `HoldsAMatch` is its companion for the bound
   (`FeedHolds`). `TurnFaithful`, `FrameTurns` and `FrameKeeps` lift both to the loop over choices:
   one choice is settled as long as the others have sent nothing. `Ends` adds what the end needs.

The patterns in these theorems are the two of the model, of at most five characters; what is
general is the algorithm around them, its lengths and its texts. Of a pattern they use what
steps 2 and 3 name: that it ends within a match's length, looks at one character on either side, and that
a beginning of it is a tail the hold-back recognises; `assert_holdback_covers_patterns`
(`redactor.py:389-410`) asks the last, character by character, of the five.

The assumptions are the named `ASSUME`s of the modules and the hypotheses written in the
theorems. Sums are cardinalities of finite sets, so the arithmetic rests on the library's
`FS_*` facts. Every invariant of a passing run is stated by a theorem. Left to TLC are the three liveness
properties, `ClosesOnceHealthy`, `SlotReturned` and `EveryCallAnswered`, which rest on fairness, and
everything the runs show violated.

## Not modelled, and the plan

Logging, metadata and wording of errors, HTTP parsing, `usage()`, `row_count()` and `/healthz`
(they only read), pragmas, the mock servers and the benchmark (test doubles and measurement),
`verify_stdout_purity.py` (a test of what `PureWire` states).

Of the limiter: a request whose estimate alone exceeds the limit is told to retry after one
second for ever (`RetryHelps` asks only for refusals that counted a row); the body's
`retry_after_seconds` is one short of the header's. Of the router: a client that goes away, which
does not cancel the handler (`router.py:195`).

Of the redactor: the five patterns as they are, statistics, and `holdback_exact`. What the
patterns themselves miss is not a question of the model either, which compares chunked with
one-pass redaction. Of the streaming gateway: lines that are only passed on, the other fields of
a frame (one whose content is held back is dropped with them), and the place of the finish frame
among the others: if its delta is empty, the tail comes only at `[DONE]`, after it. Of the agent
gateway: the audit log, and a `tools/list` in another spelling, which is answered unfiltered by a
downstream that accepts it.

Of the store: floats (every sum is rounded to cents), and a restart, with which keys and balances
are lost together. A refund sent again without a key is made again, as `schemas.py:94` says. Of
the server: the protocol's handshake and `tools/list`. Of the guard: a second call, which raises
and changes nothing; a child forked without an exec, which inherits the wire; a short write on a
pipe that does not block.

To come, in this order:

1. The transactions of `RateLimiter` statement by statement, with a worker that dies
   between check and insert, shown to implement the atomic ones.
2. A redactor for each choice, the repair `sse_choices` calls for, with `EachChoiceWhole` proved of it.
