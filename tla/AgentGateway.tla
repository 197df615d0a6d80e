---------------------------- MODULE AgentGateway ----------------------------
(***************************************************************************)
(* The gateway of task2_mcp_gateway between an agent and a downstream MCP  *)
(* server: one HTTP request, single or a batch, through authentication,    *)
(* parsing, authorization of each message by role and tool, and the calls  *)
(* downstream.  The gateway keeps nothing between requests, so one request *)
(* is the whole of it.                                                     *)
(*                                                                         *)
(* The downstream is external: a call takes effect there when it is sent,  *)
(* whatever then becomes of its answer.  Strings are members of small      *)
(* sets; Folded is what normalize_method and normalize_tool_name do.       *)
(***************************************************************************)
EXTENDS Integers, Sequences, FiniteSets, SequencesExt

CONSTANTS
    Roles,        \* the roles of known principals
    Messages,     \* the entries a body can hold
    WellFormed,   \* the methods and tool names within the permitted sets
    Folded,       \* spelling -> the form it is judged by
    Rules,        \* prefix_roles, in order: a prefix and the roles it allows
    StartsWith,   \* the pairs of a folded name and a prefix it begins with
    Listed,       \* the names of the tools the downstream lists
    Statuses,     \* the HTTP statuses it answers with
    MaxEntries    \* bound on the entries of a body

Nobody == "nobody"        \* no token, or one that resolves to no principal
Unnamed == "unnamed"      \* params not an object, or its name not a string

ASSUME MessagesAssumption ==
    \A m \in Messages : DOMAIN m = {"rpc", "method", "tool", "id"}
ASSUME RolesAssumption == Nobody \notin Roles
ASSUME RulesAssumption == Rules \in Seq([prefix : STRING, roles : SUBSET Roles])
ASSUME FoldedAssumption == WellFormed \cup Listed \subseteq DOMAIN Folded

VARIABLES
    config,    \* allow_batch, filter_tools_list and the policy's default_allow
    role,      \* the caller's role, or Nobody
    batch,     \* whether the body is an array
    body,      \* its entries; none if it is not JSON
    pc,        \* where the handler is
    at,        \* the entry it is at
    calls,     \* what the downstream was sent
    answers,   \* what goes back, with the entry each is the answer to
    http       \* the HTTP status

request == <<config, role, batch, body>>
vars == <<config, role, batch, body, pc, at, calls, answers, http>>

Codes == {"unauthenticated", "parse_error", "invalid_request", "invalid_params",
          "unauthorized", "upstream_unavailable", "internal_error"}
Outcomes == {"result", "odd_result", "sse", "not_json", "too_deep", "timeout", "transport",
             "other"}

----------------------------------------------------------------------------
Wellformed(name) == name \in WellFormed \ {Unnamed}

(* The rules whose prefix the folded name begins with.                     *)
Covering(tool) == {k \in DOMAIN Rules : <<Folded[tool], Rules[k].prefix>> \in StartsWith}

(* Mutation of Governs: whichever rule lets the caller in.                 *)
GovernsAny(k, tool) == k \in Covering(tool)

(* evaluate() asks the rules in order and goes by the first that covers.   *)
Governs(k, tool) == k \in Covering(tool) /\ \A j \in 1 .. k - 1 : j \notin Covering(tool)

(* ToolPolicy.evaluate, and visible_to.                                    *)
Allows(r, tool) ==
    \/ \E k \in DOMAIN Rules : Governs(k, tool) /\ r \in Rules[k].roles
    \/ Covering(tool) = {} /\ config.default_allow

(* Mutation of IsToolCall: the method is compared as it is spelled.        *)
IsToolCallExact(m) == m.method = "tools/call"

IsToolCall(m) == Folded[m.method] = "tools/call"

Refusable(m) == Wellformed(m.tool) /\ ~Allows(role, m.tool)

(* Mutation of Verdict: a tool the caller may not call is said not to be.  *)
VerdictHidden(m) ==
    IF ~Wellformed(m.method) THEN "invalid_request"
    ELSE IF ~IsToolCall(m) THEN "allow"
    ELSE IF Refusable(m) THEN "unknown_tool"
    ELSE IF Wellformed(m.tool) THEN "allow" ELSE "invalid_params"

(* authorize(): the error to send back, or "allow".                        *)
Verdict(m) ==
    IF ~Wellformed(m.method) THEN "invalid_request"
    ELSE IF ~IsToolCall(m) THEN "allow"
    ELSE IF Refusable(m) THEN "unauthorized"
    ELSE IF Wellformed(m.tool) THEN "allow" ELSE "invalid_params"

(* filter_tools_response, for a result that is an object.                  *)
Shown(m) == IF config.filter_tools_list /\ m.method = "tools/list"
            THEN {t \in Listed : Allows(role, t)} ELSE Listed

(* It takes the tools of the result without asking what the result is.     *)
FilterFails(m, outcome) ==
    outcome = "odd_result" /\ config.filter_tools_list /\ m.method = "tools/list"

(* What nobody catches: that, and, where one message is answered, a body   *)
(* nested too deep to decode, which is a RecursionError and no ValueError. *)
Escapes(m, outcome) == FilterFails(m, outcome) \/ (outcome = "too_deep" /\ ~batch)

Result(m, outcome) ==
    [code |-> "result", tools |-> IF m.method = "tools/list" /\ outcome = "result"
                                  THEN Shown(m) ELSE {}]
Error(code) == [code |-> code, tools |-> {}]

(* What becomes of a call's outcome on the single-message path.            *)
SingleAnswer(m, outcome) ==
    CASE outcome \in {"result", "odd_result"} -> Result(m, outcome)
      [] outcome = "sse" -> Error("stream")
      [] outcome \in {"not_json", "timeout", "transport"} -> Error("upstream_unavailable")
      [] OTHER -> Error("internal_error")

(* The downstream's status is passed on with what it is the status of.     *)
SingleStatus(outcome) ==
    CASE outcome \in {"result", "odd_result", "sse"} -> Statuses
      [] outcome = "timeout" -> {504}
      [] outcome \in {"not_json", "transport"} -> {502}
      [] OTHER -> {500}

(* Mutation of BatchAnswer: the batch does not filter.                     *)
BatchAnswerWhole(m, outcome) ==
    IF outcome \in {"result", "odd_result"}
    THEN [code |-> "result", tools |-> IF m.method = "tools/list" /\ outcome = "result"
                                       THEN Listed ELSE {}]
    ELSE Error("upstream_unavailable")

BatchAnswer(m, outcome) ==
    IF outcome \in {"result", "odd_result"} THEN Result(m, outcome)
                                            ELSE Error("upstream_unavailable")

----------------------------------------------------------------------------
Entry == body[at]
Answered(a) == answers' = Append(answers, [entry |-> at, answer |-> a])
Reply(a, status) == Answered(a) /\ http' = status /\ pc' = "done" /\ UNCHANGED <<at, calls>>

Init ==
    /\ config \in [allow_batch : BOOLEAN, filter_tools_list : BOOLEAN, default_allow : BOOLEAN]
    /\ role \in Roles \cup {Nobody}
    /\ batch \in BOOLEAN
    /\ body \in IF batch THEN BoundedSeq(Messages, MaxEntries) ELSE BoundedSeq(Messages, 1)
    /\ pc = "arrived"
    /\ at = 1
    /\ calls = <<>>
    /\ answers = <<>>
    /\ http = 0

Unauthenticated ==
    /\ pc = "arrived" /\ role = Nobody
    /\ Reply(Error("unauthenticated"), 401)
    /\ UNCHANGED request

ParseError ==
    /\ pc = "arrived" /\ role # Nobody
    /\ body = <<>> /\ ~batch
    /\ Reply(Error("parse_error"), 400)
    /\ UNCHANGED request

BatchRefused ==
    /\ pc = "arrived" /\ role # Nobody
    /\ batch /\ ~config.allow_batch
    /\ Reply(Error("invalid_request"), 400)
    /\ UNCHANGED request

BeginBatch ==
    /\ pc = "arrived" /\ role # Nobody
    /\ batch /\ config.allow_batch
    /\ pc' = "next"
    /\ UNCHANGED <<request, at, calls, answers, http>>

(* A call goes out, in the caller's name; the handler awaits the answer.   *)
Send ==
    /\ calls' = Append(calls, [entry |-> at, role |-> role, outcome |-> "pending"])
    /\ pc' = "waiting"
    /\ UNCHANGED <<request, at, answers, http>>

Single == pc = "arrived" /\ role # Nobody /\ ~batch /\ body # <<>>

SingleNotRpc ==
    /\ Single /\ ~Entry.rpc
    /\ Reply(Error("invalid_request"), 400)
    /\ UNCHANGED request

SingleDenied ==
    /\ Single /\ Entry.rpc
    /\ Verdict(Entry) # "allow"
    /\ Reply(Error(Verdict(Entry)), 200)
    /\ UNCHANGED request

SingleForward ==
    /\ Single /\ Entry.rpc
    /\ Verdict(Entry) = "allow"
    /\ Send

(* The call at hand has come to an end.                                    *)
Settled(outcome) == calls' = [calls EXCEPT ![Len(calls)].outcome = outcome]

SingleSettled ==
    \E outcome \in Outcomes :
        /\ pc = "waiting" /\ ~batch
        /\ ~Escapes(Entry, outcome)
        /\ Settled(outcome)
        /\ Answered(SingleAnswer(Entry, outcome))
        /\ http' \in SingleStatus(outcome)
        /\ pc' = "done"
        /\ UNCHANGED <<request, at>>

(* The handler raises: an HTTP 500 that carries no JSON-RPC answer.        *)
Raise ==
    /\ pc = "waiting"
    /\ \E outcome \in Outcomes : Escapes(Entry, outcome) /\ Settled(outcome)
    /\ http' = 500
    /\ pc' = "raised"
    /\ answers' = <<>>
    /\ UNCHANGED <<request, at>>

----------------------------------------------------------------------------
(* handle_batch: one entry a step.                                         *)
AtEntry == pc = "next" /\ at <= Len(body)

EntryNotRpc ==
    /\ AtEntry /\ ~Entry.rpc
    /\ Answered(Error("invalid_request"))
    /\ at' = at + 1
    /\ UNCHANGED <<request, pc, calls, http>>

(* Mutation of EntryDenied: a denial ends the batch.                       *)
EntryDeniedStops ==
    /\ AtEntry /\ Entry.rpc
    /\ Verdict(Entry) # "allow"
    /\ IF Entry.id THEN Answered(Error(Verdict(Entry))) ELSE UNCHANGED answers
    /\ at' = Len(body) + 1
    /\ UNCHANGED <<request, pc, calls, http>>

EntryDenied ==
    /\ AtEntry /\ Entry.rpc
    /\ Verdict(Entry) # "allow"
    /\ IF Entry.id THEN Answered(Error(Verdict(Entry))) ELSE UNCHANGED answers
    /\ at' = at + 1
    /\ UNCHANGED <<request, pc, calls, http>>

EntryForward ==
    /\ AtEntry /\ Entry.rpc
    /\ Verdict(Entry) = "allow"
    /\ Send

(* Mutation of EntrySettled: a notification's failure is reported.         *)
EntrySettledReports ==
    \E outcome \in Outcomes :
        /\ pc = "waiting" /\ batch
        /\ ~Escapes(Entry, outcome)
        /\ Settled(outcome)
        /\ IF Entry.id \/ outcome = "timeout"
           THEN Answered(BatchAnswer(Entry, outcome)) ELSE UNCHANGED answers
        /\ at' = at + 1
        /\ pc' = "next"
        /\ UNCHANGED <<request, http>>

EntrySettled ==
    \E outcome \in Outcomes :
        /\ pc = "waiting" /\ batch
        /\ ~Escapes(Entry, outcome)
        /\ Settled(outcome)
        /\ IF Entry.id THEN Answered(BatchAnswer(Entry, outcome)) ELSE UNCHANGED answers
        /\ at' = at + 1
        /\ pc' = "next"
        /\ UNCHANGED <<request, http>>

EndBatch ==
    /\ pc = "next" /\ at > Len(body)
    /\ http' = IF answers = <<>> THEN 202 ELSE 200
    /\ pc' = "done"
    /\ UNCHANGED <<request, at, calls, answers>>

Next ==
    \/ Unauthenticated \/ ParseError \/ BatchRefused \/ BeginBatch
    \/ SingleNotRpc \/ SingleDenied \/ SingleForward \/ SingleSettled
    \/ EntryNotRpc \/ EntryDenied \/ EntryForward \/ EntrySettled \/ EndBatch
    \/ Raise

Spec == Init /\ [][Next]_vars

----------------------------------------------------------------------------
CallRecords == [entry : Nat, role : Roles, outcome : Outcomes \cup {"pending"}]
AnswerRecords ==
    [entry : Nat, answer : [code : Codes \cup {"result", "stream"}, tools : SUBSET Listed]]

TypeOK ==
    /\ config \in [allow_batch : BOOLEAN, filter_tools_list : BOOLEAN, default_allow : BOOLEAN]
    /\ role \in Roles \cup {Nobody} /\ batch \in BOOLEAN
    /\ body \in Seq(Messages)
    /\ pc \in {"arrived", "next", "waiting", "done", "raised"}
    /\ at \in 1 .. Len(body) + 1
    /\ http \in {0, 200, 202, 400, 401, 500, 502, 504} \cup Statuses
    /\ calls \in Seq(CallRecords)
    /\ answers \in Seq(AnswerRecords)

(* The policy as an operator writes it: of the rules that cover a tool the *)
(* topmost bars whom it does not name, and default_allow decides the rest. *)
Barred(r, tool) ==
    \/ Covering(tool) = {} /\ ~config.default_allow
    \/ \E k \in Covering(tool) : r \notin Rules[k].roles /\ \A j \in Covering(tool) : k <= j

(* What may reach the downstream in the name of role r, said without       *)
(* reference to the order in which authorize() asks.                       *)
MaySend(r, m) ==
    /\ m.rpc /\ r # Nobody /\ Wellformed(m.method)
    /\ Folded[m.method] = "tools/call" => Wellformed(m.tool) /\ ~Barred(r, m.tool)

(* A denial never reaches the downstream (mcp_gateway.py:352), whatever    *)
(* else is in the batch and however the method and the tool are spelled.   *)
DeniedNeverSent == \A k \in DOMAIN calls : calls[k].role = role /\ MaySend(role, body[calls[k].entry])

(* Why it holds: only an entry that was judged is sent, and a call that    *)
(* has come to an end was sent.                                            *)
CallsJudged ==
    /\ calls \in Seq(CallRecords)
    /\ pc = "waiting" => calls # <<>>
    /\ pc = "next" => role # Nobody
    /\ role \in Roles \cup {Nobody}
    /\ at \in Nat

(* The records of s are for the entries picked, one each and in order.     *)
InOrder(s, picked) ==
    /\ {s[j].entry : j \in DOMAIN s} = picked
    /\ \A i, j \in DOMAIN s : i < j => s[i].entry < s[j].entry

(* Of the first n entries, those that go downstream, and those that get an *)
(* answer: the ones with an id, and what was no JSON-RPC request.          *)
Sendable(n) == {k \in 1 .. n : MaySend(role, body[k])}
Answerable(n) == {k \in 1 .. n : body[k].id \/ ~body[k].rpc}

(* When a batch is done every entry that may be sent was sent, once and in *)
(* order: no denial or failure stopped the rest (mcp_gateway.py:447-449).  *)
EveryEntrySent ==
    (pc = "done" /\ batch /\ http \in {200, 202}) => InOrder(calls, Sendable(Len(body)))

(* Its answers are those of the entries with an id, and of what was no     *)
(* JSON-RPC request, one each and in order.                                *)
AnswersInOrder ==
    (pc = "done" /\ batch /\ http \in {200, 202}) => InOrder(answers, Answerable(Len(body)))

(* The answer due to an entry whose call came to such an end: the one it   *)
(* would get alone, but for a stream, which a batch cannot pass on, and for*)
(* exceptions that are not the transport's, among them the body nested too *)
(* deep.  To a batch all of them are an upstream that is unavailable.      *)
Due(m, outcome) ==
    IF outcome \in {"sse", "too_deep", "other"} THEN Error("upstream_unavailable")
                                               ELSE SingleAnswer(m, outcome)

(* Every answer of a batch follows from its own entry and call: the refusal*)
(* a single message gets, its filtered list (mcp_gateway.py:484-485), its  *)
(* handling of what the transport does, and otherwise what is Due.         *)
AnswersDue ==
    (batch /\ config.allow_batch /\ role # Nobody) => \A k \in DOMAIN answers :
        LET m == body[answers[k].entry]
            sent == {c \in DOMAIN calls : calls[c].entry = answers[k].entry}
        IN  \/ ~m.rpc /\ answers[k].answer = Error("invalid_request")
            \/ m.rpc /\ sent = {} /\ answers[k].answer = Error(Verdict(m))
            \/ m.rpc /\ \E c \in sent : answers[k].answer = Due(m, calls[c].outcome)

(* "One bad entry must not take down the whole batch"                      *)
(* (mcp_gateway.py:461-462): a batch that was begun gets its answers.      *)
BatchSurvives == batch => pc # "raised"
=============================================================================
