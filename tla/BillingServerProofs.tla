------------------------ MODULE BillingServerProofs ------------------------
(***************************************************************************)
(* What BillingServer promises for any customers, any intents and any      *)
(* number of retries.  Only Refund changes the store, so one lemma deals   *)
(* with the answers that do not and another with Refund.                   *)
(***************************************************************************)
EXTENDS BillingServer, FiniteSetTheorems, TLAPS

LEMMA CallsTyped ==
    ASSUME NEW c \in Calls
    PROVE  /\ c[1] \in Intents /\ c[2] \in Nat \ {0} /\ c = <<c[1], c[2]>>
           /\ T(c).amount \in Int
BY TermsAssumption, BoundsAssumption DEF Calls, T

LEMMA RefundableAmount ==
    ASSUME NEW c \in Calls, Refundable(T(c))
    PROVE  T(c).amount \in Nat \ {0}
BY CallsTyped, BoundsAssumption DEF Refundable, Valid

----------------------------------------------------------------------------
(* The inductive invariant.                                                *)

LEMMA InvInit == Init => IInv
<1> SUFFICES ASSUME Init PROVE IInv
    OBVIOUS
<1>1. TypeOK
    BY OpeningAssumption DEF Init, TypeOK
<1> QED BY <1>1 DEF Init, IInv, KeysBound, AnsweredOnce, AnswersTrue, AnswersLast

(* A call that is refused, or answered with a refund on record, leaves the *)
(* invariant as it was.                                                    *)
LEMMA AnswerOnly ==
    ASSUME IInv, UNCHANGED store, NEW c \in Calls, c \in waiting,
           NEW code \in Codes, NEW refund, Answer(c, code, refund),
           \/ code # "ok" /\ Refused(T(c))
           \/ /\ code = "ok" /\ Refundable(T(c)) /\ Keyed(c) /\ SameRequest(T(c))
              /\ refund = byKey[T(c).key]
    PROVE  IInv'
<1> USE DEF IInv, Answer
<1>1. \A k : UNCHANGED <<balance, refunds, byKey, sent>>
    BY DEF store
<1>2. /\ DOMAIN answers' = DOMAIN answers \cup {c}
      /\ \A d \in DOMAIN answers : d # c => answers'[d] = answers[d]
      /\ answers'[c] = [code |-> code, refund |-> refund,
                        replayed |-> code = "ok" /\ refund # c]
    OBVIOUS
<1>3. TypeOK'
    BY <1>1, <1>2 DEF TypeOK
<1>4. KeysBound'
    BY <1>1 DEF KeysBound
<1>5. AnsweredOnce'
    BY <1>1, <1>2 DEF AnsweredOnce
<1>6. AnswersTrue'
  <2>1. ASSUME NEW d \in DOMAIN answers', answers'[d].code = "ok", d = c
        PROVE  LET r == answers'[d].refund IN
               /\ r \in DOMAIN refunds'
               /\ refunds'[r].fingerprint = Fingerprint(T(d))
               /\ answers'[d].replayed => Keyed(d) /\ refunds'[r].key = T(d).key
      BY <1>1, <1>2, <2>1 DEF KeysBound, SameRequest, KeyUsed
  <2>2. ASSUME NEW d \in DOMAIN answers, d # c, answers'[d].code = "ok"
        PROVE  LET r == answers'[d].refund IN
               /\ r \in DOMAIN refunds'
               /\ refunds'[r].fingerprint = Fingerprint(T(d))
               /\ answers'[d].replayed => Keyed(d) /\ refunds'[r].key = T(d).key
      BY <1>1, <1>2, <2>2 DEF AnswersTrue
  <2> QED BY <1>2, <2>1, <2>2 DEF AnswersTrue
<1>7. AnswersLast'
  <2>1. \A t : (KeyUsed(t)' <=> KeyUsed(t)) /\ (SameRequest(t)' <=> SameRequest(t))
               /\ (Permitted(t)' <=> Permitted(t))
      BY <1>1 DEF KeyUsed, SameRequest, Permitted
  <2>2. \A t : Refused(t)' <=> Refused(t)
      BY <2>1 DEF Refused
  <2> QED BY <1>1, <1>2, <2>1, <2>2 DEF AnswersLast, SameRequest
<1> QED BY <1>3, <1>4, <1>5, <1>6, <1>7

(* A refund, which binds its key and leaves every refusal as final as it   *)
(* was: the balance it debits only gets smaller, and a key it binds was    *)
(* refused for its customer, its amount or another fingerprint.            *)
LEMMA RefundKeepsInv ==
    ASSUME IInv, NEW c \in Calls, Refund(c)
    PROVE  IInv'
<1> USE DEF IInv, Refund, Refunding, Answer
<1>1. /\ T(c).amount \in Nat \ {0} /\ T(c).customer \in Customers
      /\ T(c).customer \in Active /\ T(c).amount <= balance[T(c).customer]
    BY RefundableAmount DEF Permitted
<1>2. c \notin DOMAIN answers /\ c \notin DOMAIN refunds
    BY DEF AnsweredOnce
<1>3. /\ DOMAIN answers' = DOMAIN answers \cup {c}
      /\ \A d \in DOMAIN answers : answers'[d] = answers[d]
      /\ answers'[c] = [code |-> "ok", refund |-> c, replayed |-> FALSE]
    BY <1>2
<1>4. /\ DOMAIN refunds' = DOMAIN refunds \cup {c}
      /\ \A r \in DOMAIN refunds : refunds'[r] = refunds[r]
      /\ refunds'[c] = [key |-> T(c).key, fingerprint |-> Fingerprint(T(c))]
    BY <1>2 DEF Entered
<1>5. /\ DOMAIN byKey' = DOMAIN byKey \cup ({T(c).key} \ {NoKey})
      /\ \A k \in DOMAIN byKey : byKey'[k] = byKey[k]
      /\ Keyed(c) => T(c).key \in DOMAIN byKey' /\ byKey'[T(c).key] = c
  <2>1. T(c).key \notin DOMAIN byKey
      BY DEF KeyUsed, KeysBound
  <2> QED BY <2>1 DEF Bound, Keyed
<1>6. /\ balance' \in [Customers -> Nat]
      /\ \A cu \in Customers : balance'[cu] <= balance[cu]
    BY <1>1 DEF TypeOK
<1>7. TypeOK'
    BY <1>3, <1>4, <1>6 DEF TypeOK, Codes
<1>8. KeysBound'
  <2>1. NoKey \notin DOMAIN byKey'
      BY <1>5 DEF KeysBound
  <2>2. \A k \in DOMAIN byKey' : byKey'[k] \in DOMAIN refunds' /\ T(byKey'[k]).key = k
      BY <1>4, <1>5 DEF KeysBound, Keyed
  <2>3. ASSUME NEW r \in DOMAIN refunds'
        PROVE /\ refunds'[r] = [key |-> T(r).key, fingerprint |-> Fingerprint(T(r))]
              /\ Refundable(T(r)) /\ T(r).customer \in Customers
              /\ Keyed(r) => T(r).key \in DOMAIN byKey' /\ byKey'[T(r).key] = r
    <3>1. CASE r = c
        BY <1>1, <1>4, <1>5, <3>1
    <3>2. CASE r \in DOMAIN refunds
        BY <1>4, <1>5, <3>2 DEF KeysBound
    <3> QED BY <1>4, <3>1, <3>2
  <2> QED BY <2>1, <2>2, <2>3 DEF KeysBound
<1>9. AnsweredOnce'
    BY <1>3, <1>4 DEF AnsweredOnce
<1>10. AnswersTrue'
  <2>1. ASSUME NEW d \in DOMAIN answers, answers'[d].code = "ok"
        PROVE  LET r == answers'[d].refund IN
               /\ r \in DOMAIN refunds'
               /\ refunds'[r].fingerprint = Fingerprint(T(d))
               /\ answers'[d].replayed => Keyed(d) /\ refunds'[r].key = T(d).key
      BY <1>3, <1>4, <2>1 DEF AnswersTrue
  <2> QED BY <1>3, <1>4, <2>1 DEF AnswersTrue
<1>11. AnswersLast'
  <2>1. ASSUME NEW d \in DOMAIN answers, answers[d].code # "ok", Refused(T(d))
        PROVE  Refused(T(d))'
    <3> DEFINE t == T(d)
    <3>1. t.amount \in Int
        BY CallsTyped DEF TypeOK
    <3>2. CASE ~Refundable(t)
        BY <3>2 DEF Refused
    <3>3. CASE KeyUsed(t) /\ ~SameRequest(t)
      <4>1. KeyUsed(t)' /\ byKey'[t.key] = byKey[t.key] /\ byKey[t.key] \in DOMAIN refunds
          BY <1>5, <3>3 DEF KeyUsed, KeysBound
      <4> QED BY <1>4, <3>3, <4>1 DEF Refused, SameRequest
    <3>4. CASE ~KeyUsed(t) /\ ~(t.customer \in Customers /\ Permitted(t))
      <4>1. ~(t.customer \in Customers /\ Permitted(t)')
        <5>1. \A cu \in Customers : balance[cu] \in Nat /\ balance'[cu] \in Nat
            BY <1>6 DEF TypeOK
        <5> QED BY <1>6, <3>1, <3>4, <5>1 DEF Permitted
      <4>2. CASE ~KeyUsed(t)'
          BY <4>1, <4>2 DEF Refused
      <4>3. CASE KeyUsed(t)'
        <5>1. t.key = T(c).key /\ byKey'[t.key] = c /\ Keyed(c)
            BY <1>5, <3>4, <4>3 DEF KeyUsed, Keyed
        <5>2. Fingerprint(t) # Fingerprint(T(c))
            BY <1>1, <3>4 DEF Fingerprint, Permitted
        <5> QED BY <1>4, <4>3, <5>1, <5>2 DEF Refused, SameRequest
      <4> QED BY <4>2, <4>3
    <3> QED BY <2>1, <3>2, <3>3, <3>4 DEF Refused
  <2>2. ASSUME NEW d \in DOMAIN answers, answers[d].code = "ok", Refundable(T(d)),
               Keyed(d) => KeyUsed(T(d)) /\ byKey[T(d).key] = answers[d].refund
        PROVE  Keyed(d) => KeyUsed(T(d))' /\ byKey'[T(d).key] = answers'[d].refund
      BY <1>3, <1>5, <2>2 DEF KeyUsed
  <2>3. Keyed(c) => KeyUsed(T(c))' /\ byKey'[T(c).key] = c
      BY <1>5 DEF KeyUsed, Keyed
  <2> QED BY <1>3, <2>1, <2>2, <2>3 DEF AnswersLast
<1> QED BY <1>7, <1>8, <1>9, <1>10, <1>11

LEMMA InvStep == IInv /\ [Next]_vars => IInv'
<1> SUFFICES ASSUME IInv, [Next]_vars PROVE IInv'
    OBVIOUS
<1>1. ASSUME NEW i \in Intents, Send(i) PROVE IInv'
  <2> USE <1>1 DEF IInv, Send
  <2> DEFINE n == <<i, sent[i] + 1>>
  <2>1. sent[i] \in Nat /\ MaxTries[i] \in Nat /\ n \in Calls
    <3>1. sent[i] \in Nat /\ MaxTries[i] \in Nat
        BY BoundsAssumption DEF TypeOK
    <3>2. sent[i] + 1 \in 1 .. MaxTries[i]
        BY <3>1
    <3>3. n \in {i} \X (1 .. MaxTries[i])
        BY <3>2
    <3> QED BY <3>1, <3>3 DEF Calls
  <2>2. /\ sent'[i] = sent[i] + 1
        /\ \A j \in Intents \ {i} : sent'[j] = sent[j]
        /\ sent' \in [Intents -> Nat]
      BY <2>1 DEF TypeOK
  <2>3. TypeOK'
      BY <2>1, <2>2 DEF TypeOK
  <2>4. KeysBound' /\ AnswersTrue'
      BY DEF KeysBound, AnswersTrue
  <2>5. AnsweredOnce'
    <3>1. \A c \in waiting \cup DOMAIN answers :
              c[1] \in Intents /\ c[2] \in Nat /\ c[2] <= sent[c[1]]
        BY CallsTyped DEF TypeOK, AnsweredOnce
    <3>2. \A c \in waiting \cup DOMAIN answers : c[2] <= sent'[c[1]]
        BY <2>1, <2>2, <3>1
    <3>3. n \notin DOMAIN answers
        BY <2>1, <3>1
    <3>4. n[2] <= sent'[n[1]]
        BY <2>1, <2>2
    <3> QED BY <3>2, <3>3, <3>4 DEF AnsweredOnce
  <2>6. AnswersLast'
      BY DEF AnswersLast, Refused, KeyUsed, SameRequest, Permitted
  <2> QED BY <2>3, <2>4, <2>5, <2>6
<1>2. ASSUME NEW c \in Calls, InvalidParams(c) PROVE IInv'
    BY <1>2, AnswerOnly DEF InvalidParams, Refused, Refundable, Codes
<1>3. ASSUME NEW c \in Calls, GetRecord(c) PROVE IInv'
    BY <1>3, AnswerOnly DEF GetRecord, Refused, Refundable, Codes
<1>4. ASSUME NEW c \in Calls, Replay(c) PROVE IInv'
    BY <1>4, AnswerOnly DEF Replay, Refunding, SameRequest, KeyUsed, Keyed, Codes
<1>5. ASSUME NEW c \in Calls, Conflict(c) PROVE IInv'
    BY <1>5, AnswerOnly DEF Conflict, Refunding, Refused, Codes
<1>6. ASSUME NEW c \in Calls, NotFound(c) PROVE IInv'
    BY <1>6, AnswerOnly DEF NotFound, Refunding, Refused, Codes
<1>7. ASSUME NEW c \in Calls, NotPermitted(c) PROVE IInv'
    BY <1>7, AnswerOnly DEF NotPermitted, Refunding, Refused, Codes
<1>8. ASSUME NEW c \in Calls, Refund(c) PROVE IInv'
    BY <1>8, RefundKeepsInv
<1>9. ASSUME UNCHANGED vars PROVE IInv'
  <2> USE <1>9 DEF vars, IInv
  <2>1. TypeOK' /\ KeysBound' /\ AnsweredOnce' /\ AnswersTrue'
      BY DEF TypeOK, KeysBound, AnsweredOnce, AnswersTrue
  <2>2. AnswersLast'
      BY DEF AnswersLast, Refused, KeyUsed, SameRequest, Permitted
  <2> QED BY <2>1, <2>2
<1> QED BY <1>1, <1>2, <1>3, <1>4, <1>5, <1>6, <1>7, <1>8, <1>9 DEF Next, Handle

(* Keys stay bound to their refunds, and what every call was told stays    *)
(* the reason it was told it (store.py:76-132).                            *)
THEOREM InvAlways == Spec => []IInv
BY InvInit, InvStep, PTL DEF Spec

----------------------------------------------------------------------------
(* However often, in whatever order and with whatever other arguments a    *)
(* key is sent, the store makes one refund of it (store.py:87-102).        *)
THEOREM RefundedOnce == Spec => []OncePerKey
<1>1. IInv => OncePerKey
    BY DEF IInv, KeysBound, OncePerKey, Keyed
<1> QED BY <1>1, InvAlways, PTL

(* A caller told "ok" was told of the refund it asked for, and all tries   *)
(* of a keyed intent are told the same (store.py:96-102).                  *)
THEOREM RetriesAgree == Spec => [](AnswersTrue /\ VerdictStable)
<1>1. IInv => AnswersTrue
    BY DEF IInv
<1>2. ASSUME IInv PROVE VerdictStable
  <2>1. SUFFICES ASSUME NEW c \in DOMAIN answers, NEW d \in DOMAIN answers,
                        c[1] = d[1], Keyed(c), answers[c].code = "ok"
                 PROVE  answers[d].code = "ok" /\ answers[d].refund = answers[c].refund
      BY DEF VerdictStable
  <2>2. T(d) = T(c) /\ Keyed(d)
      BY <2>1 DEF T, Keyed
  <2>3. /\ Refundable(T(c)) /\ KeyUsed(T(c))
        /\ byKey[T(c).key] = answers[c].refund
      BY <1>2, <2>1 DEF IInv, AnswersLast
  <2>4. SameRequest(T(c))
      BY <1>2, <2>1, <2>3 DEF IInv, AnswersTrue, SameRequest
  <2>5. ~Refused(T(d))
      BY <2>2, <2>3, <2>4 DEF Refused
  <2> QED BY <1>2, <2>2, <2>3, <2>5 DEF IInv, AnswersLast
<1> QED BY <1>1, <1>2, InvAlways, PTL

(* Taken alone: no retry is told "ok" of another customer's, payment's or  *)
(* amount's refund that happens to have its key.                           *)
THEOREM AnswersNameTheirRefund == Spec => []AnswersTrue
BY RetriesAgree, PTL

(* Balances never go below zero, and every key leads to a refund on record.*)
THEOREM BillingTypes == Spec => []TypeOK
<1>1. IInv => TypeOK
    BY DEF IInv
<1> QED BY <1>1, InvAlways, PTL

----------------------------------------------------------------------------
(* Money.                                                                  *)

LEMMA PartCount ==
    ASSUME NEW x, NEW n \in Nat
    PROVE  IsFiniteSet({x} \X (1 .. n)) /\ Cardinality({x} \X (1 .. n)) = n
<1>1. IsFiniteSet({x}) /\ Cardinality({x}) = 1
    BY FS_Singleton
<1>2. IsFiniteSet(1 .. n) /\ Cardinality(1 .. n) = n
    BY FS_Interval
<1>3. /\ IsFiniteSet({x} \X (1 .. n))
      /\ Cardinality({x} \X (1 .. n)) = Cardinality({x}) * Cardinality(1 .. n)
    BY <1>1, <1>2, FS_Product
<1> QED BY <1>1, <1>2, <1>3

LEMMA DisjointCount ==
    ASSUME NEW S, IsFiniteSet(S), NEW U, IsFiniteSet(U), S \cap U = {}
    PROVE  Cardinality(S \cup U) = Cardinality(S) + Cardinality(U)
<1>1. Cardinality({}) = 0
    BY FS_EmptySet
<1>2. Cardinality(S) \in Nat /\ Cardinality(U) \in Nat
    BY FS_CardinalityType
<1>3. Cardinality(S \cup U) = Cardinality(S) + Cardinality(U) - Cardinality(S \cap U)
    BY FS_Union
<1>4. Cardinality(S \cap U) = 0
    BY <1>1, Zenon
<1> QED BY <1>2, <1>3, <1>4

LEMMA CentsFinite ==
    ASSUME IInv, NEW cu PROVE IsFiniteSet(Cents(cu)) /\ Cardinality(Cents(cu)) \in Nat
<1> DEFINE made == {s \in DOMAIN refunds : T(s).customer = cu}
           f == [r \in made |-> {r} \X (1 .. T(r).amount)]
           parts == {{r} \X (1 .. T(r).amount) : r \in made}
<1>1. IsFiniteSet(Calls)
  <2> DEFINE g == [i \in Intents |-> {i} \X (1 .. MaxTries[i])]
             tries == {{i} \X (1 .. MaxTries[i]) : i \in Intents}
  <2>1. g \in Surjection(Intents, tries)
      BY DEF Surjection
  <2>2. IsFiniteSet(tries)
      BY <2>1, IntentsAssumption, FS_Surjection
  <2>3. ASSUME NEW i \in Intents PROVE IsFiniteSet({i} \X (1 .. MaxTries[i]))
    <3>1. MaxTries[i] \in Nat
        BY BoundsAssumption
    <3> QED BY <3>1, PartCount
  <2> QED BY <2>2, <2>3, FS_UNION DEF Calls
<1>2. IsFiniteSet(made)
    BY <1>1, FS_Subset DEF IInv, TypeOK
<1>3. f \in Surjection(made, parts)
    BY DEF Surjection
<1>4. IsFiniteSet(parts)
    BY <1>2, <1>3, FS_Surjection
<1>5. ASSUME NEW r \in made PROVE IsFiniteSet({r} \X (1 .. T(r).amount))
  <2>1. T(r).amount \in Nat
      BY RefundableAmount DEF IInv, TypeOK, KeysBound
  <2> QED BY <2>1, PartCount
<1>6. IsFiniteSet(UNION parts)
    BY <1>4, <1>5, FS_UNION
<1> QED BY <1>6, FS_CardinalityType DEF Cents

(* A refund moves its amount, and no other step moves anything.            *)
LEMMA BalancedStep == IInv /\ IInv' /\ Balanced /\ [Next]_vars => Balanced'
<1> SUFFICES ASSUME IInv, IInv', Balanced, [Next]_vars PROVE Balanced'
    OBVIOUS
<1>1. CASE UNCHANGED store
    BY <1>1 DEF store, Balanced, Cents
<1>2. ASSUME NEW c \in Calls, Refund(c) PROVE Balanced'
  <2> DEFINE new == {c} \X (1 .. T(c).amount)
  <2>1. /\ T(c).amount \in Nat /\ T(c).customer \in Customers
        /\ balance \in [Customers -> Nat]
        /\ balance' = [balance EXCEPT ![T(c).customer] = @ - T(c).amount]
        /\ DOMAIN refunds' = DOMAIN refunds \cup {c} /\ c \notin DOMAIN refunds
      BY <1>2, RefundableAmount
      DEF Refund, Refunding, Entered, IInv, TypeOK, AnsweredOnce
  <2>2. ASSUME NEW cu \in Customers, cu # T(c).customer
        PROVE  balance'[cu] + Cardinality(Cents(cu)') = Opening[cu]
    <3>1. {s \in DOMAIN refunds' : T(s).customer = cu} = {s \in DOMAIN refunds : T(s).customer = cu}
        BY <2>1, <2>2
    <3>2. Cents(cu)' = Cents(cu)
        BY <3>1 DEF Cents
    <3> QED BY <2>1, <2>2, <3>2 DEF Balanced
  <2>3. ASSUME NEW cu \in Customers, cu = T(c).customer
        PROVE  balance'[cu] + Cardinality(Cents(cu)') = Opening[cu]
    <3>1. {s \in DOMAIN refunds' : T(s).customer = cu}
            = {s \in DOMAIN refunds : T(s).customer = cu} \cup {c}
        BY <2>1, <2>3
    <3>2. Cents(cu)' = Cents(cu) \cup new
        BY <3>1 DEF Cents
    <3>3. Cents(cu) \cap new = {}
        BY <2>1 DEF Cents
    <3>4. IsFiniteSet(new) /\ Cardinality(new) = T(c).amount
        BY <2>1, PartCount
    <3>5. IsFiniteSet(Cents(cu)) /\ Cardinality(Cents(cu)) \in Nat
        BY CentsFinite
    <3>6. Cardinality(Cents(cu) \cup new) = Cardinality(Cents(cu)) + Cardinality(new)
        BY <3>3, <3>4, <3>5, DisjointCount
    <3>7. balance'[cu] = balance[cu] - T(c).amount /\ balance[cu] \in Nat
        BY <2>1, <2>3
    <3>8. Opening[cu] \in Nat /\ balance[cu] + Cardinality(Cents(cu)) = Opening[cu]
        BY OpeningAssumption DEF Balanced
    <3> QED BY <2>1, <3>2, <3>4, <3>5, <3>6, <3>7, <3>8
  <2> QED BY <2>2, <2>3 DEF Balanced
<1>3. [Next]_vars => UNCHANGED store \/ \E c \in Calls : Refund(c)
    BY DEF Next, Handle, Send, InvalidParams, GetRecord, Replay, Conflict, NotFound, NotPermitted,
           store, vars
<1> QED BY <1>1, <1>2, <1>3

(* What a customer was refunded is what is missing from the opening        *)
(* balance, which is never overdrawn (store.py:110-128).                   *)
THEOREM MoneyConserved == Spec => [](TypeOK /\ Balanced)
<1>1. Init => Balanced
  <2> SUFFICES ASSUME Init, NEW cu \in Customers
               PROVE  balance[cu] + Cardinality(Cents(cu)) = Opening[cu]
      BY DEF Balanced
  <2>1. Cents(cu) = {}
      BY DEF Init, Cents
  <2>2. Cardinality(Cents(cu)) = 0
      BY <2>1, FS_EmptySet
  <2> QED BY <2>2, OpeningAssumption DEF Init
<1>2. IInv => TypeOK
    BY DEF IInv
<1> QED BY <1>1, <1>2, InvAlways, BalancedStep, PTL DEF Spec
=============================================================================
