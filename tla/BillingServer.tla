--------------------------- MODULE BillingServer ---------------------------
(***************************************************************************)
(* The billing MCP server of task1_mcp_server: call_tool of server.py over *)
(* the BillingStore of store.py, and the agent that calls it.              *)
(*                                                                         *)
(* The agent has things it wants done (Intents) and retries: a call that   *)
(* timed out at the agent may have succeeded at the server, so it is sent  *)
(* again, with the same arguments, while the first may still be on its way *)
(* or its answer lost.  Two intents may also carry the same idempotency    *)
(* key by mistake.  The SDK runs a task for every call, in any order here; *)
(* call_tool awaits nothing and create_refund holds the store's lock, so a *)
(* call is one step.  The store is in memory: a restart begins it anew.    *)
(*                                                                         *)
(* Amounts are cents: the schema admits two decimal places and the store   *)
(* rounds to two.  The fingerprint is what it hashes.                      *)
(***************************************************************************)
EXTENDS Integers, FiniteSets

CONSTANTS
    Customers,   \* the ids the store has a record for
    Active,      \* the ids whose status is "active"
    Opening,     \* their refundable balances to begin with
    Intents,     \* what the agent wants done
    Terms,       \* the tool and the arguments of each intent
    MaxRefund,   \* MAX_REFUND_AMOUNT
    MaxTries     \* bound on how often each intent is sent

NoKey == "no key"

ASSUME OpeningAssumption == Opening \in [Customers -> Nat]
ASSUME TermsAssumption ==
    \A i \in Intents : /\ DOMAIN Terms[i] = {"tool", "customer", "amount", "reason", "key"}
                       /\ Terms[i].amount \in Int
ASSUME BoundsAssumption == MaxRefund \in Nat /\ MaxTries \in [Intents -> Nat]
ASSUME IntentsAssumption == IsFiniteSet(Intents)
ASSUME ActiveAssumption == Active \subseteq Customers

VARIABLES
    balance,   \* refundable_balance_usd of each customer
    refunds,   \* refund id -> refund; a refund's id is the call that created it
    byKey,     \* _by_idempotency_key: key -> refund id
    sent,      \* how often each intent was sent
    waiting,   \* calls sent and not yet answered
    answers    \* call -> the answer it was given

store == <<balance, refunds, byKey>>
vars == <<balance, refunds, byKey, sent, waiting, answers>>

Calls == UNION {{i} \X (1 .. MaxTries[i]) : i \in Intents}
Codes == {"ok", "record", "invalid_params", "customer_not_found",
          "refund_not_permitted", "idempotency_key_conflict"}

(* The terms of a call are those of its intent.                            *)
T(c) == Terms[c[1]]
Fingerprint(t) == <<t.customer, t.amount, t.reason>>

----------------------------------------------------------------------------
(* What create_refund asks, in the order in which it asks.                 *)

(* Mutation of Valid: no lower bound on the amount.                        *)
ValidUpTo(t) == t.tool = "trigger_refund" => t.amount <= MaxRefund

(* The tool's schema, of which the range of the amount stands for all.     *)
Valid(t) == t.tool = "trigger_refund" => t.amount \in 1 .. MaxRefund

KeyUsed(t) == t.key # NoKey /\ t.key \in DOMAIN byKey

(* Mutation of SameRequest: any use of a key is a replay.                  *)
SameRequestAny(t) == KeyUsed(t)

SameRequest(t) == KeyUsed(t) /\ refunds[byKey[t.key]].fingerprint = Fingerprint(t)

(* Mutation of Permitted: the balance is not asked.                        *)
PermittedAny(t) == t.customer \in Active

Permitted(t) == t.customer \in Active /\ t.amount <= balance[t.customer]

----------------------------------------------------------------------------
Init ==
    /\ balance = Opening
    /\ refunds = [c \in {} |-> <<>>]
    /\ byKey = [k \in {} |-> <<>>]
    /\ sent = [i \in Intents |-> 0]
    /\ waiting = {}
    /\ answers = [c \in {} |-> <<>>]

(* The agent sends an intent, for the first time or again.                 *)
Send(i) ==
    /\ sent[i] < MaxTries[i]
    /\ sent' = [sent EXCEPT ![i] = @ + 1]
    /\ waiting' = waiting \cup {<<i, sent[i] + 1>>}
    /\ UNCHANGED <<balance, refunds, byKey, answers>>

(* The server answers call c.                                              *)
Answer(c, code, refund) ==
    /\ waiting' = waiting \ {c}
    /\ answers' = [d \in DOMAIN answers \cup {c} |->
                     IF d = c THEN [code |-> code, refund |-> refund,
                                    replayed |-> code = "ok" /\ refund # c]
                              ELSE answers[d]]
    /\ UNCHANGED sent

(* McpError -32602: an unknown tool or arguments the schema rejects.       *)
InvalidParams(c) ==
    /\ c \in waiting
    /\ T(c).tool \notin {"get_customer_record", "trigger_refund"} \/ ~Valid(T(c))
    /\ Answer(c, "invalid_params", c)
    /\ UNCHANGED store

GetRecord(c) ==
    /\ c \in waiting
    /\ T(c).tool = "get_customer_record"
    /\ Answer(c, IF T(c).customer \in Customers THEN "record" ELSE "customer_not_found", c)
    /\ UNCHANGED store

Refundable(t) == t.tool = "trigger_refund" /\ Valid(t)
Refunding(c) == c \in waiting /\ Refundable(T(c))

Replay(c) ==
    /\ Refunding(c)
    /\ SameRequest(T(c))
    /\ Answer(c, "ok", byKey[T(c).key])
    /\ UNCHANGED store

Conflict(c) ==
    /\ Refunding(c)
    /\ KeyUsed(T(c)) /\ ~SameRequest(T(c))
    /\ Answer(c, "idempotency_key_conflict", c)
    /\ UNCHANGED store

NotFound(c) ==
    /\ Refunding(c)
    /\ ~KeyUsed(T(c)) /\ T(c).customer \notin Customers
    /\ Answer(c, "customer_not_found", c)
    /\ UNCHANGED store

(* Mutation of NotPermitted: the balance is asked before the key.          *)
NotPermittedFirst(c) ==
    /\ Refunding(c)
    /\ T(c).customer \in Customers /\ ~Permitted(T(c))
    /\ Answer(c, "refund_not_permitted", c)
    /\ UNCHANGED store

NotPermitted(c) ==
    /\ Refunding(c)
    /\ ~KeyUsed(T(c)) /\ T(c).customer \in Customers /\ ~Permitted(T(c))
    /\ Answer(c, "refund_not_permitted", c)
    /\ UNCHANGED store

(* refunds.append.                                                         *)
Entered(c) == [r \in DOMAIN refunds \cup {c} |->
                 IF r = c THEN [key |-> T(c).key, fingerprint |-> Fingerprint(T(c))]
                          ELSE refunds[r]]

(* Mutation of Bound: the key is not kept.                                 *)
BoundNever(c) == byKey

(* _by_idempotency_key[idempotency_key] = refund, if there is a key.       *)
Bound(c) == [k \in DOMAIN byKey \cup ({T(c).key} \ {NoKey}) |->
               IF k = T(c).key THEN c ELSE byKey[k]]

Refund(c) ==
    /\ Refunding(c)
    /\ ~KeyUsed(T(c)) /\ T(c).customer \in Customers /\ Permitted(T(c))
    /\ balance' = [balance EXCEPT ![T(c).customer] = @ - T(c).amount]
    /\ refunds' = Entered(c)
    /\ byKey' = Bound(c)
    /\ Answer(c, "ok", c)

(* call_tool, and what it ends in.                                         *)
Handle(c) == \/ InvalidParams(c) \/ GetRecord(c)
             \/ Replay(c) \/ Conflict(c) \/ NotFound(c) \/ NotPermitted(c) \/ Refund(c)

Next == \/ \E i \in Intents : Send(i)
        \/ \E c \in Calls : Handle(c)

Spec == Init /\ [][Next]_vars

----------------------------------------------------------------------------
(* The cents refunded to a customer, one element each.                     *)
Cents(cu) == UNION {{r} \X (1 .. T(r).amount) :
                      r \in {s \in DOMAIN refunds : T(s).customer = cu}}

Keyed(c) == T(c).key # NoKey

(* Types, and no balance below zero: Permitted is asked of the balance the *)
(* debit is taken from, whatever was refunded in between.                  *)
TypeOK ==
    /\ balance \in [Customers -> Nat]
    /\ DOMAIN refunds \subseteq Calls
    /\ sent \in [Intents -> Nat]
    /\ waiting \subseteq Calls
    /\ DOMAIN answers \subseteq Calls
    /\ \A c \in DOMAIN answers : answers[c].code \in Codes

(* What a customer was refunded, by all calls and retries together, is what *)
(* is missing from the opening balance.                                     *)
Balanced == \A cu \in Customers : balance[cu] + Cardinality(Cents(cu)) = Opening[cu]

(* An idempotency key makes at most one refund, however often, late, or    *)
(* with whatever other arguments it is sent.                               *)
OncePerKey == \A r, s \in DOMAIN refunds : refunds[r].key = refunds[s].key => r = s \/ ~Keyed(r)

(* An answer "ok" names a refund on record that is the one the caller      *)
(* asked for: its customer, amount and reason, and its key if it is a      *)
(* replay.  (The store once answered a reused key with another customer's  *)
(* refund: store.py:89-95.)                                                *)
AnswersTrue ==
    \A c \in DOMAIN answers : answers[c].code = "ok" =>
        LET r == answers[c].refund IN
        /\ r \in DOMAIN refunds
        /\ refunds[r].fingerprint = Fingerprint(T(c))
        /\ answers[c].replayed => Keyed(c) /\ refunds[r].key = T(c).key

(* What a retry is told does not depend on which of the tries was answered *)
(* first, or on what was refunded in between: all succeed, with the same   *)
(* refund, or all are refused.                                             *)
VerdictStable ==
    \A c, d \in DOMAIN answers : (c[1] = d[1] /\ Keyed(c) /\ answers[c].code = "ok") =>
        answers[d].code = "ok" /\ answers[d].refund = answers[c].refund

----------------------------------------------------------------------------
(* Why they hold.                                                          *)

(* A refund is on record as asked for; a key is bound to its refund.       *)
KeysBound ==
    /\ NoKey \notin DOMAIN byKey
    /\ \A k \in DOMAIN byKey : byKey[k] \in DOMAIN refunds /\ T(byKey[k]).key = k
    /\ \A r \in DOMAIN refunds :
          /\ refunds[r] = [key |-> T(r).key, fingerprint |-> Fingerprint(T(r))]
          /\ Refundable(T(r)) /\ T(r).customer \in Customers
          /\ Keyed(r) => T(r).key \in DOMAIN byKey /\ byKey[T(r).key] = r

(* A call is answered once, and a refund is made by an answered call.      *)
AnsweredOnce ==
    /\ \A c \in waiting : c \notin DOMAIN answers
    /\ \A c \in waiting \cup DOMAIN answers : c[2] <= sent[c[1]]
    /\ DOMAIN refunds \subseteq DOMAIN answers

(* Why a call was refused: for a reason that will not go away.             *)
Refused(t) ==
    \/ ~Refundable(t)
    \/ KeyUsed(t) /\ ~SameRequest(t)
    \/ ~KeyUsed(t) /\ ~(t.customer \in Customers /\ Permitted(t))

AnswersLast ==
    \A c \in DOMAIN answers :
        \/ /\ answers[c].code = "ok" /\ Refundable(T(c))
           /\ Keyed(c) => KeyUsed(T(c)) /\ byKey[T(c).key] = answers[c].refund
        \/ answers[c].code # "ok" /\ Refused(T(c))

IInv == TypeOK /\ KeysBound /\ AnsweredOnce /\ AnswersTrue /\ AnswersLast
=============================================================================
