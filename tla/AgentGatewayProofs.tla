------------------------- MODULE AgentGatewayProofs -------------------------
(***************************************************************************)
(* What AgentGateway promises for any policy, any messages and any length  *)
(* of a batch.                                                             *)
(***************************************************************************)
EXTENDS AgentGateway, SequenceTheorems, WellFoundedInduction, TLAPS

IInv == CallsJudged /\ DeniedNeverSent

(* The first rule that covers a tool is the topmost: evaluate() lets nobody*)
(* in whom the policy bars.                                                *)
LEMMA AllowedNotBarred ==
    ASSUME NEW r, NEW tool, Allows(r, tool)
    PROVE  ~Barred(r, tool)
<1>1. DOMAIN Rules = 1 .. Len(Rules) /\ Len(Rules) \in Nat
    BY RulesAssumption
<1>2. \A k \in Covering(tool) : k \in Nat \ {0}
    BY <1>1 DEF Covering
<1>3. CASE \E k \in DOMAIN Rules : Governs(k, tool) /\ r \in Rules[k].roles
  <2>1. PICK k \in DOMAIN Rules : Governs(k, tool) /\ r \in Rules[k].roles
      BY <1>3
  <2>2. k \in Covering(tool) /\ \A j \in Covering(tool) : j <= k => j = k
      BY <1>2, <2>1 DEF Governs
  <2> QED BY <2>1, <2>2 DEF Barred
<1>4. CASE Covering(tool) = {} /\ config.default_allow
    BY <1>4 DEF Barred
<1> QED BY <1>3, <1>4 DEF Allows

(* What authorize() lets pass is what may be sent.                         *)
LEMMA AllowedMaySend ==
    ASSUME NEW m, m.rpc, role # Nobody, Verdict(m) = "allow"
    PROVE  MaySend(role, m)
BY AllowedNotBarred DEF Verdict, Refusable, MaySend, IsToolCall

LEMMA SendKeepsInv ==
    ASSUME IInv, Send, role # Nobody, MaySend(role, body[at])
    PROVE  IInv'
<1> USE DEF IInv, Send, request
<1> DEFINE c == [entry |-> at, role |-> role, outcome |-> "pending"]
<1>1. c \in CallRecords /\ calls \in Seq(CallRecords)
    BY DEF CallsJudged, CallRecords
<1>2. /\ calls' \in Seq(CallRecords) /\ calls' # <<>>
      /\ DOMAIN calls' = 1 .. Len(calls) + 1
      /\ \A k \in 1 .. Len(calls) : calls'[k] = calls[k]
      /\ calls'[Len(calls) + 1] = c
  <2>1. calls' = Append(calls, c)
      OBVIOUS
  <2> HIDE DEF c
  <2>2. /\ calls' \in Seq(CallRecords) /\ calls' # <<>> /\ Len(calls') = Len(calls) + 1
        /\ \A k \in 1 .. Len(calls) : calls'[k] = calls[k]
        /\ calls'[Len(calls) + 1] = c
      BY <1>1, <2>1, AppendProperties
  <2> QED BY <2>2, LenProperties
<1>3. CallsJudged'
    BY <1>2 DEF CallsJudged
<1>4. \A r, m : MaySend(r, m)' <=> MaySend(r, m)
    BY DEF MaySend, Barred
<1>5. DOMAIN calls = 1 .. Len(calls) /\ Len(calls) \in Nat
    BY <1>1
<1>6. DeniedNeverSent'
    BY <1>2, <1>4, <1>5 DEF DeniedNeverSent
<1> QED BY <1>3, <1>6

LEMMA SettleKeepsInv ==
    ASSUME IInv, NEW outcome \in Outcomes, Settled(outcome), pc = "waiting",
           UNCHANGED request, at' \in Nat, pc' \notin {"waiting", "next"} \/ role # Nobody,
           pc' # "waiting"
    PROVE  IInv'
<1> USE DEF IInv, Settled, request
<1> DEFINE n == Len(calls)
           c == [calls[n] EXCEPT !.outcome = outcome]
<1>1. calls \in Seq(CallRecords) /\ n \in Nat \ {0} /\ DOMAIN calls = 1 .. n
    BY DEF CallsJudged
<1>2. calls[n] \in CallRecords
    BY <1>1, ElementOfSeq
<1>3. c \in CallRecords /\ c.entry = calls[n].entry /\ c.role = calls[n].role
    BY <1>2 DEF CallRecords
<1>4. /\ calls' \in Seq(CallRecords)
      /\ DOMAIN calls' = 1 .. n
      /\ \A k \in 1 .. n : /\ calls'[k].entry = calls[k].entry
                           /\ calls'[k].role = calls[k].role
  <2>1. calls' = [calls EXCEPT ![n] = c]
      OBVIOUS
  <2> HIDE DEF c
  <2>2. /\ calls' \in Seq(CallRecords) /\ Len(calls') = n
        /\ \A k \in 1 .. n : calls'[k] = IF k = n THEN c ELSE calls[k]
      BY <1>1, <1>3, <2>1, ExceptSeq
  <2>3. DOMAIN calls' = 1 .. n
      BY <2>2, LenProperties
  <2> QED BY <1>3, <2>2, <2>3
<1>5. CallsJudged'
    BY <1>4 DEF CallsJudged
<1>6. \A r, m : MaySend(r, m)' <=> MaySend(r, m)
    BY DEF MaySend, Barred
<1>7. DeniedNeverSent'
    BY <1>1, <1>4, <1>6 DEF DeniedNeverSent
<1> QED BY <1>5, <1>7

LEMMA InvInit == Init => IInv
BY DEF Init, IInv, CallsJudged, DeniedNeverSent

(* A step that sends nothing and ends no call.                             *)
LEMMA QuietStep ==
    ASSUME IInv, UNCHANGED <<request, calls>>, at' \in Nat, pc' # "waiting" \/ UNCHANGED pc,
           pc' = "next" => role # Nobody
    PROVE  IInv'
<1> USE DEF IInv, request
<1>1. CallsJudged'
    BY DEF CallsJudged
<1>2. \A r, m : MaySend(r, m)' <=> MaySend(r, m)
    BY DEF MaySend, Barred
<1> QED BY <1>1, <1>2 DEF DeniedNeverSent

LEMMA InvStep == IInv /\ [Next]_vars => IInv'
<1> SUFFICES ASSUME IInv, [Next]_vars PROVE IInv'
    OBVIOUS
<1>1. at \in Nat
    BY DEF IInv, CallsJudged
<1>2. CASE Unauthenticated \/ ParseError \/ BatchRefused \/ SingleNotRpc \/ SingleDenied
    BY <1>1, <1>2, QuietStep
    DEF Unauthenticated, ParseError, BatchRefused, SingleNotRpc, SingleDenied, Reply
<1>3. CASE BeginBatch
    BY <1>1, <1>3, QuietStep DEF BeginBatch
<1>4. CASE SingleForward
    BY <1>4, AllowedMaySend, SendKeepsInv DEF SingleForward, Single, Entry
<1>5. CASE SingleSettled
  <2>1. PICK outcome \in Outcomes :
          /\ pc = "waiting" /\ Settled(outcome)
          /\ pc' = "done" /\ UNCHANGED <<request, at>>
      BY <1>5 DEF SingleSettled
  <2> QED BY <1>1, <2>1, SettleKeepsInv
<1>6. CASE EntryNotRpc
    BY <1>1, <1>6, QuietStep DEF EntryNotRpc, AtEntry, IInv, CallsJudged
<1>7. CASE EntryDenied
    BY <1>1, <1>7, QuietStep DEF EntryDenied, AtEntry, IInv, CallsJudged
<1>8. CASE EntryForward
    BY <1>8, AllowedMaySend, SendKeepsInv DEF EntryForward, AtEntry, Entry, IInv, CallsJudged
<1>9. CASE EntrySettled
  <2>1. PICK outcome \in Outcomes :
          /\ pc = "waiting" /\ Settled(outcome)
          /\ pc' = "next" /\ at' = at + 1 /\ UNCHANGED request
      BY <1>9 DEF EntrySettled
  <2>2. calls \in Seq(CallRecords) /\ calls # <<>>
      BY <2>1 DEF IInv, CallsJudged
  <2>3. 1 \in DOMAIN calls
      BY <2>2
  <2>4. role # Nobody
      BY <2>3 DEF IInv, DeniedNeverSent, MaySend
  <2> QED BY <1>1, <2>1, <2>4, SettleKeepsInv
<1>10. CASE EndBatch
    BY <1>1, <1>10, QuietStep DEF EndBatch
<1>11. CASE Raise
  <2>1. PICK outcome \in Outcomes : Settled(outcome)
      BY <1>11 DEF Raise
  <2> QED BY <1>1, <1>11, <2>1, SettleKeepsInv DEF Raise
<1>12. CASE UNCHANGED vars
  <2>1. UNCHANGED <<request, calls, pc, at>>
      BY <1>12 DEF vars, request
  <2>2. pc' = "next" => role # Nobody
      BY <2>1 DEF IInv, CallsJudged
  <2> QED BY <1>1, <2>1, <2>2, QuietStep
<1> QED BY <1>2, <1>3, <1>4, <1>5, <1>6, <1>7, <1>8, <1>9, <1>10, <1>11, <1>12 DEF Next

----------------------------------------------------------------------------
(* A set of naturals has a least element.                                  *)
LEMMA NatOrder ==
    \E R : IsWellFoundedOn(R, Nat) /\ \A m, n \in Nat : m < n => <<m, n>> \in R
<1> DEFINE R == OpToRel(<, Nat)
<1>1. IsWellFoundedOn(R, Nat)
    BY NatLessThanWellFounded
<1>2. \A m, n \in Nat : <<m, n>> \in R <=> m < n
    BY DEF OpToRel
<1> HIDE DEF R
<1> QED BY <1>1, <1>2

LEMMA Least ==
    ASSUME NEW S, S \subseteq Nat, S # {}
    PROVE  \E n \in S : \A m \in S : n <= m
<1>1. PICK R : IsWellFoundedOn(R, Nat) /\ \A m, n \in Nat : m < n => <<m, n>> \in R
    BY NatOrder
<1>2. IsWellFoundedOn(R, Nat)
    BY <1>1
<1>3. \E n \in S : \A m \in S : ~(<<m, n>> \in R)
    BY <1>2, WFMin
<1>4. PICK n \in S : \A m \in S : ~(<<m, n>> \in R)
    BY <1>3
<1>5. n \in Nat /\ \A m \in S : m \in Nat
    OBVIOUS
<1>6. \A m \in S : ~(m < n)
    BY <1>1, <1>4, <1>5
<1>7. \A m \in S : n <= m
    BY <1>5, <1>6
<1> QED BY <1>7

(* And evaluate() keeps nobody out whom the policy does not bar.           *)
LEMMA NotBarredAllowed ==
    ASSUME NEW r, NEW tool, ~Barred(r, tool), config.default_allow \in BOOLEAN
    PROVE  Allows(r, tool)
<1>1. CASE Covering(tool) = {}
    BY <1>1 DEF Barred, Allows
<1>2. CASE Covering(tool) # {}
  <2>1. DOMAIN Rules = 1 .. Len(Rules) /\ Len(Rules) \in Nat
      BY RulesAssumption
  <2>2. Covering(tool) \subseteq Nat /\ Covering(tool) \subseteq DOMAIN Rules
      BY <2>1 DEF Covering
  <2>3. PICK k \in Covering(tool) : \A j \in Covering(tool) : k <= j
      BY <1>2, <2>2, Least
  <2>4. k \in Nat /\ \A j \in Covering(tool) : j \in Nat
      BY <2>2
  <2>5. Governs(k, tool)
      BY <2>3, <2>4 DEF Governs
  <2>6. r \in Rules[k].roles
      BY <2>3 DEF Barred
  <2> QED BY <2>2, <2>5, <2>6 DEF Allows
<1> QED BY <1>1, <1>2

(* authorize() lets pass exactly what may be sent.                         *)
LEMMA AllowedIffMaySend ==
    ASSUME NEW m, m.rpc, role # Nobody, config.default_allow \in BOOLEAN
    PROVE  Verdict(m) = "allow" <=> MaySend(role, m)
<1>1. Verdict(m) = "allow" => MaySend(role, m)
    BY AllowedMaySend
<1>2. ASSUME MaySend(role, m) PROVE Verdict(m) = "allow"
  <2>1. CASE ~IsToolCall(m)
      BY <1>2, <2>1 DEF MaySend, Verdict
  <2>2. CASE IsToolCall(m)
    <3>1. Allows(role, m.tool)
        BY <1>2, <2>2, NotBarredAllowed DEF MaySend, IsToolCall
    <3> QED BY <1>2, <2>2, <3>1 DEF MaySend, Verdict, Refusable, IsToolCall
  <2> QED BY <2>1, <2>2
<1> QED BY <1>1, <1>2

----------------------------------------------------------------------------
(* A record for a later entry goes to the end; one that changes in place   *)
(* keeps its entry.                                                        *)
LEMMA AppendInOrder ==
    ASSUME NEW S, NEW s \in Seq(S), NEW picked, picked \subseteq Nat, InOrder(s, picked),
           NEW e \in S, e.entry \in Nat, \A k \in picked : k < e.entry
    PROVE  InOrder(Append(s, e), picked \cup {e.entry})
<1> DEFINE t == Append(s, e)
           n == Len(s)
<1>1. /\ n \in Nat /\ DOMAIN s = 1 .. n
      /\ t \in Seq(S) /\ Len(t) = n + 1
      /\ \A j \in 1 .. n : t[j] = s[j]
      /\ t[n + 1] = e
    BY AppendProperties, LenProperties
<1>2. DOMAIN t = 1 .. n + 1
    BY <1>1, LenProperties
<1> HIDE DEF t, n
<1>3. \A j \in 1 .. n : s[j].entry \in picked
    BY <1>1 DEF InOrder
<1>4. {t[j].entry : j \in DOMAIN t} = picked \cup {e.entry}
  <2>1. ASSUME NEW j \in 1 .. n + 1 PROVE t[j].entry \in picked \cup {e.entry}
      BY <1>1, <1>3
  <2>2. ASSUME NEW k \in picked PROVE \E j \in 1 .. n + 1 : t[j].entry = k
    <3>1. PICK j \in 1 .. n : s[j].entry = k
        BY <1>1 DEF InOrder
    <3> QED BY <1>1, <3>1
  <2>3. n + 1 \in 1 .. n + 1 /\ t[n + 1].entry = e.entry
      BY <1>1
  <2> QED BY <1>2, <2>1, <2>2, <2>3
<1>5. ASSUME NEW i \in 1 .. n + 1, NEW j \in 1 .. n + 1, i < j
      PROVE  t[i].entry < t[j].entry
  <2>1. i \in 1 .. n
      BY <1>1, <1>5
  <2>2. CASE j = n + 1
      BY <1>1, <1>3, <2>1, <2>2
  <2>3. CASE j \in 1 .. n
      BY <1>1, <1>5, <2>1, <2>3 DEF InOrder
  <2> QED BY <1>1, <2>2, <2>3
<1> QED BY <1>2, <1>4, <1>5 DEF InOrder, t

LEMMA SameEntriesInOrder ==
    ASSUME NEW s, NEW t, NEW picked, InOrder(s, picked), DOMAIN s = DOMAIN t,
           \A j \in DOMAIN s : t[j].entry = s[j].entry
    PROVE  InOrder(t, picked)
BY DEF InOrder

----------------------------------------------------------------------------
(* What is judged of the request does not change while it is handled.      *)
LEMMA SameRequest ==
    ASSUME UNCHANGED request
    PROVE  /\ \A r, m : MaySend(r, m)' <=> MaySend(r, m)
           /\ \A m : Verdict(m)' = Verdict(m)
           /\ \A m, o : Due(m, o)' = Due(m, o)
           /\ \A n : Sendable(n)' = Sendable(n) /\ Answerable(n)' = Answerable(n)
<1> USE DEF request
<1>1. /\ \A r, m : MaySend(r, m)' <=> MaySend(r, m)
      /\ \A n : Answerable(n)' = Answerable(n)
    BY DEF MaySend, Barred, Answerable
<1>2. \A n : Sendable(n)' = Sendable(n)
    BY <1>1 DEF Sendable
<1>3. \A r, t : Allows(r, t)' <=> Allows(r, t)
    BY DEF Allows
<1>4. \A m : Verdict(m)' = Verdict(m)
    BY <1>3 DEF Verdict, Refusable
<1>5. \A m, o : Due(m, o)' = Due(m, o)
  <2>1. \A m : Shown(m)' = Shown(m)
      BY <1>3 DEF Shown
  <2> QED BY <2>1 DEF Due, SingleAnswer, Result, Error
<1> QED BY <1>1, <1>2, <1>4, <1>5

AnswerTypes == [code : Codes \cup {"result", "stream"}, tools : SUBSET Listed]

LEMMA AnswersTyped ==
    /\ \A code \in Codes \cup {"stream"} : Error(code) \in AnswerTypes
    /\ \A m : Verdict(m) = "allow" \/ Error(Verdict(m)) \in AnswerTypes
    /\ \A m : \A o \in Outcomes :
          SingleAnswer(m, o) \in AnswerTypes /\ BatchAnswer(m, o) \in AnswerTypes
<1>1. \A code \in Codes \cup {"stream"} : Error(code) \in AnswerTypes
    BY DEF Error, AnswerTypes
<1>2. \A m : Verdict(m) = "allow" \/ Error(Verdict(m)) \in AnswerTypes
    BY <1>1 DEF Verdict, Codes
<1>3. \A m, o : Result(m, o) \in AnswerTypes
  <2>1. \A m : Shown(m) \in SUBSET Listed
      BY DEF Shown
  <2> QED BY <2>1 DEF Result, AnswerTypes
<1>4. \A m : \A o \in Outcomes :
          SingleAnswer(m, o) \in AnswerTypes /\ BatchAnswer(m, o) \in AnswerTypes
    BY <1>1, <1>3 DEF SingleAnswer, BatchAnswer, Outcomes, Codes
<1> QED BY <1>1, <1>2, <1>4

(* An answer to the entry at hand is appended.                             *)
LEMMA AnswerAppended ==
    ASSUME answers \in Seq(AnswerRecords), at \in Nat, NEW a \in AnswerTypes, Answered(a)
    PROVE  /\ answers' \in Seq(AnswerRecords)
           /\ DOMAIN answers = 1 .. Len(answers) /\ Len(answers) \in Nat
           /\ DOMAIN answers' = 1 .. Len(answers) + 1
           /\ \A k \in DOMAIN answers : answers'[k] = answers[k]
           /\ answers'[Len(answers) + 1] = [entry |-> at, answer |-> a]
           /\ \A picked : picked \subseteq 1 .. at - 1 /\ InOrder(answers, picked) =>
                 InOrder(answers', picked \cup {at})
<1> DEFINE e == [entry |-> at, answer |-> a]
<1>1. e \in AnswerRecords /\ e.entry = at
    BY DEF AnswerRecords, AnswerTypes
<1>2. answers' = Append(answers, e)
    BY DEF Answered
<1> HIDE DEF e
<1>3. /\ answers' \in Seq(AnswerRecords) /\ Len(answers') = Len(answers) + 1
      /\ \A k \in 1 .. Len(answers) : answers'[k] = answers[k]
      /\ answers'[Len(answers) + 1] = e
    BY <1>1, <1>2, AppendProperties
<1>4. /\ DOMAIN answers = 1 .. Len(answers) /\ Len(answers) \in Nat
      /\ DOMAIN answers' = 1 .. Len(answers) + 1
    BY <1>3, LenProperties
<1>5. ASSUME NEW picked, picked \subseteq 1 .. at - 1, InOrder(answers, picked)
      PROVE  InOrder(answers', picked \cup {at})
  <2>1. picked \subseteq Nat /\ \A k \in picked : k < e.entry
      BY <1>1, <1>5
  <2> QED BY <1>1, <1>2, <1>5, <2>1, AppendInOrder
<1> QED BY <1>3, <1>4, <1>5 DEF e

(* The call that goes out is the last one, for the entry at hand.          *)
LEMMA CallAppended ==
    ASSUME calls \in Seq(CallRecords), at \in Nat, role \in Roles, Send
    PROVE  /\ calls' \in Seq(CallRecords)
           /\ DOMAIN calls = 1 .. Len(calls) /\ Len(calls) \in Nat
           /\ DOMAIN calls' = 1 .. Len(calls) + 1 /\ Len(calls') = Len(calls) + 1
           /\ \A k \in DOMAIN calls : calls'[k] = calls[k]
           /\ calls'[Len(calls) + 1].entry = at
           /\ \A picked : picked \subseteq 1 .. at - 1 /\ InOrder(calls, picked) =>
                 InOrder(calls', picked \cup {at})
<1> DEFINE c == [entry |-> at, role |-> role, outcome |-> "pending"]
<1>1. c \in CallRecords /\ c.entry = at
    BY DEF CallRecords
<1>2. calls' = Append(calls, c)
    BY DEF Send
<1> HIDE DEF c
<1>3. /\ calls' \in Seq(CallRecords) /\ Len(calls') = Len(calls) + 1
      /\ \A k \in 1 .. Len(calls) : calls'[k] = calls[k]
      /\ calls'[Len(calls) + 1] = c
    BY <1>1, <1>2, AppendProperties
<1>4. /\ DOMAIN calls = 1 .. Len(calls) /\ Len(calls) \in Nat
      /\ DOMAIN calls' = 1 .. Len(calls) + 1
    BY <1>3, LenProperties
<1>5. ASSUME NEW picked, picked \subseteq 1 .. at - 1, InOrder(calls, picked)
      PROVE  InOrder(calls', picked \cup {at})
  <2>1. picked \subseteq Nat /\ \A k \in picked : k < c.entry
      BY <1>1, <1>5
  <2> QED BY <1>1, <1>2, <1>5, <2>1, AppendInOrder
<1> QED BY <1>1, <1>3, <1>4, <1>5

LEMMA CallSettled ==
    ASSUME calls \in Seq(CallRecords), calls # <<>>, NEW outcome \in Outcomes, Settled(outcome)
    PROVE  /\ calls' \in Seq(CallRecords)
           /\ Len(calls) \in Nat \ {0} /\ DOMAIN calls = 1 .. Len(calls)
           /\ DOMAIN calls' = DOMAIN calls
           /\ \A k \in DOMAIN calls : calls'[k].entry = calls[k].entry
           /\ \A k \in DOMAIN calls : k # Len(calls) => calls'[k] = calls[k]
           /\ calls'[Len(calls)].outcome = outcome
           /\ \A picked : InOrder(calls, picked) => InOrder(calls', picked)
<1> DEFINE n == Len(calls)
           c == [calls[n] EXCEPT !.outcome = outcome]
<1>1. n \in Nat \ {0} /\ DOMAIN calls = 1 .. n
    OBVIOUS
<1>2. calls[n] \in CallRecords
    BY <1>1, ElementOfSeq
<1>3. c \in CallRecords /\ c.entry = calls[n].entry /\ c.outcome = outcome
    BY <1>2 DEF CallRecords
<1>4. calls' = [calls EXCEPT ![n] = c]
    BY DEF Settled
<1> HIDE DEF c
<1>5. /\ calls' \in Seq(CallRecords) /\ Len(calls') = n
      /\ \A k \in 1 .. n : calls'[k] = IF k = n THEN c ELSE calls[k]
    BY <1>1, <1>3, <1>4, ExceptSeq
<1>6. DOMAIN calls' = 1 .. n
    BY <1>5, LenProperties
<1>7. \A k \in DOMAIN calls : calls'[k].entry = calls[k].entry
    BY <1>1, <1>3, <1>5
<1>8. \A picked : InOrder(calls, picked) => InOrder(calls', picked)
    BY <1>1, <1>6, <1>7, SameEntriesInOrder
<1>9. n \in 1 .. n
    BY <1>1
<1>10. calls'[n].outcome = outcome
    BY <1>3, <1>5, <1>9
<1>11. \A k \in DOMAIN calls : k # n => calls'[k] = calls[k]
    BY <1>1, <1>5
<1>12. DOMAIN calls' = DOMAIN calls
    BY <1>1, <1>6
<1> QED BY <1>1, <1>5, <1>7, <1>8, <1>10, <1>11, <1>12, Zenon

----------------------------------------------------------------------------
(* Why EveryEntrySent and AnswersInOrder hold: the same is true up to every*)
(* entry of the batch on the way (handle_batch, mcp_gateway.py:444-493),   *)
(* and the call that is awaited is the last one, for the entry at hand.    *)
BatchSoFar ==
    /\ pc = "arrived" => at = 1 /\ calls = <<>> /\ answers = <<>>
    /\ pc = "next" =>
          batch /\ InOrder(calls, Sendable(at - 1)) /\ InOrder(answers, Answerable(at - 1))
    /\ batch /\ pc = "waiting" =>
          /\ at <= Len(body) /\ Entry.rpc
          /\ calls[Len(calls)].entry = at
          /\ InOrder(calls, Sendable(at)) /\ InOrder(answers, Answerable(at - 1))

BatchInv == TypeOK /\ BatchSoFar /\ EveryEntrySent /\ AnswersInOrder /\ AnswersDue

LEMMA BatchInit == Init => BatchInv
<1> SUFFICES ASSUME Init PROVE BatchInv
    OBVIOUS
<1>1. body \in Seq(Messages)
  <2>1. \A S, n : BoundedSeq(S, n) \subseteq Seq(S)
    <3>1. \A S, n : BoundedSeq(S, n) = UNION {[1 .. m -> S] : m \in 0 .. n}
        BY DEF BoundedSeq, SeqOf
    <3>2. \A S : Seq(S) = UNION {[1 .. m -> S] : m \in Nat}
        BY SeqDef
    <3>3. \A n : 0 .. n \subseteq Nat
        OBVIOUS
    <3> QED BY <3>1, <3>2, <3>3
  <2> QED BY <2>1 DEF Init
<1>2. /\ calls = <<>> /\ answers = <<>> /\ at = 1 /\ pc = "arrived"
    BY DEF Init
<1>3. TypeOK
    BY <1>1 DEF Init, TypeOK
<1>4. BatchSoFar /\ EveryEntrySent /\ AnswersInOrder /\ AnswersDue
    BY <1>2 DEF BatchSoFar, EveryEntrySent, AnswersInOrder, AnswersDue
<1> QED BY <1>3, <1>4 DEF BatchInv

(* How far the entry at hand takes what was sent and answered.             *)
LEMMA NextEntry ==
    ASSUME at \in Nat \ {0}
    PROVE  /\ Sendable(at) = IF MaySend(role, body[at]) THEN Sendable(at - 1) \cup {at}
                                                      ELSE Sendable(at - 1)
           /\ Answerable(at) = IF body[at].id \/ ~body[at].rpc THEN Answerable(at - 1) \cup {at}
                                                             ELSE Answerable(at - 1)
           /\ Sendable(at - 1) \subseteq 1 .. at - 1
           /\ Answerable(at - 1) \subseteq 1 .. at - 1
<1>1. 1 .. at = 1 .. at - 1 \cup {at}
    OBVIOUS
<1> QED BY <1>1 DEF Sendable, Answerable

LEMMA EntriesBelow ==
    ASSUME NEW s, NEW picked, InOrder(s, picked), picked \subseteq 1 .. at - 1, at \in Nat
    PROVE  \A j \in DOMAIN s : s[j].entry \in 1 .. at - 1 /\ s[j].entry < at
<1>1. \A j \in DOMAIN s : s[j].entry \in picked
    BY DEF InOrder
<1>2. \A k \in picked : k \in 1 .. at - 1 /\ k < at
    OBVIOUS
<1> QED BY <1>1, <1>2

(* One answer by itself.                                                   *)
AloneHere(k) ==
    LET m == body[answers[k].entry]
        sent == {c \in DOMAIN calls : calls[c].entry = answers[k].entry}
    IN  \/ ~m.rpc /\ answers[k].answer = Error("invalid_request")
        \/ m.rpc /\ sent = {} /\ answers[k].answer = Error(Verdict(m))
        \/ m.rpc /\ \E c \in sent : answers[k].answer = Due(m, calls[c].outcome)

(* An answer given before stays as it would be alone, whatever becomes of  *)
(* the calls of other entries.                                             *)
LEMMA AloneKept ==
    ASSUME UNCHANGED request, NEW k, AloneHere(k), answers'[k] = answers[k],
           \A c \in DOMAIN calls' :
              calls'[c].entry = answers[k].entry => c \in DOMAIN calls /\ calls'[c] = calls[c],
           \A c \in DOMAIN calls :
              calls[c].entry = answers[k].entry => c \in DOMAIN calls' /\ calls'[c] = calls[c]
    PROVE  AloneHere(k)'
<1> DEFINE m == body[answers[k].entry]
           sent == {c \in DOMAIN calls : calls[c].entry = answers[k].entry}
<1>1. sent' = sent /\ \A c \in sent : calls'[c] = calls[c]
    OBVIOUS
<1>2. m' = m
    BY DEF request
<1>3. Verdict(m') = Verdict(m) /\ \A r : Verdict(r)' = Verdict(r)
    BY <1>2, SameRequest
<1>4. \A r, o : Due(r, o)' = Due(r, o)
    BY SameRequest
<1>5. CASE ~m.rpc /\ answers[k].answer = Error("invalid_request")
    BY <1>2, <1>5 DEF AloneHere, Error
<1>6. CASE m.rpc /\ sent = {} /\ answers[k].answer = Error(Verdict(m))
    BY <1>1, <1>2, <1>3, <1>6 DEF AloneHere, Error
<1>7. CASE m.rpc /\ \E c \in sent : answers[k].answer = Due(m, calls[c].outcome)
    BY <1>1, <1>2, <1>4, <1>7 DEF AloneHere
<1> QED BY <1>5, <1>6, <1>7 DEF AloneHere

LEMMA AloneNext ==
    ASSUME UNCHANGED request, AnswersDue, NEW n \in Nat, DOMAIN answers = 1 .. n,
           \/ DOMAIN answers' = 1 .. n
           \/ DOMAIN answers' = 1 .. n + 1 /\ AloneHere(n + 1)',
           \A k \in 1 .. n : AloneHere(k) => AloneHere(k)'
    PROVE  AnswersDue'
<1>1. SUFFICES ASSUME batch' /\ config'.allow_batch /\ role' # Nobody
               PROVE  AnswersDue'
    BY DEF AnswersDue
<1>2. \A k \in 1 .. n : AloneHere(k)
    BY <1>1 DEF AnswersDue, AloneHere, request
<1>3. \A k \in DOMAIN answers' : AloneHere(k)'
    BY <1>2
<1> QED BY <1>3 DEF AnswersDue, AloneHere

(* The steps that end the handling: of a single message, or of a refusal.  *)
LEMMA EndStep ==
    ASSUME BatchInv, NEW a \in AnswerTypes, Answered(a), UNCHANGED <<request, at>>,
           calls' \in Seq(CallRecords), pc' = "done",
           http' \in {200, 400, 401, 500, 502, 504} \cup Statuses,
           batch => http' \notin {200, 202} /\ (role = Nobody \/ ~config.allow_batch)
    PROVE  BatchInv'
<1>1. at \in Nat
    BY DEF BatchInv, TypeOK
<1>a. answers \in Seq(AnswerRecords)
    BY DEF BatchInv, TypeOK
<1>b. Answered(a)
    OBVIOUS
<1>2. answers' \in Seq(AnswerRecords)
  <2>1. [entry |-> at, answer |-> a] \in AnswerRecords
      BY <1>1 DEF AnswerRecords, AnswerTypes
  <2> QED BY <1>a, <1>b, <2>1, AppendProperties DEF Answered
<1>3. TypeOK'
    BY <1>2 DEF BatchInv, TypeOK, request
<1>4. BatchSoFar'
    BY DEF BatchSoFar
<1>5. EveryEntrySent' /\ AnswersInOrder'
    BY DEF EveryEntrySent, AnswersInOrder, request
<1>6. AnswersDue'
    BY DEF AnswersDue, request
<1> QED BY <1>3, <1>4, <1>5, <1>6 DEF BatchInv

LEMMA SoFarNext ==
    ASSUME UNCHANGED request, batch, NEW n, at' - 1 = n, pc' = "next",
           InOrder(calls', Sendable(n)), InOrder(answers', Answerable(n))
    PROVE  BatchSoFar'
<1>1. Sendable(n)' = Sendable(n) /\ Answerable(n)' = Answerable(n)
    BY SameRequest
<1>2. InOrder(calls', Sendable(at - 1)') /\ InOrder(answers', Answerable(at - 1)')
    BY <1>1
<1> QED BY <1>2 DEF BatchSoFar, request

LEMMA BeginStep == ASSUME BatchInv, BeginBatch PROVE BatchInv'
<1>1. at = 1 /\ calls = <<>> /\ answers = <<>>
    BY DEF BatchInv, BatchSoFar, BeginBatch
<1>2. TypeOK'
    BY DEF BatchInv, TypeOK, BeginBatch, request
<1>3. at' = 1 /\ calls' = <<>> /\ answers' = <<>> /\ pc' = "next" /\ batch
    BY <1>1 DEF BeginBatch
<1>4. Sendable(0) = {} /\ Answerable(0) = {}
    BY DEF Sendable, Answerable
<1>5. InOrder(<<>>, {})
    BY DEF InOrder
<1>6. BatchSoFar'
    BY <1>3, <1>4, <1>5, SoFarNext DEF BeginBatch
<1>7. EveryEntrySent' /\ AnswersInOrder' /\ AnswersDue'
    BY <1>3 DEF EveryEntrySent, AnswersInOrder, AnswersDue
<1> QED BY <1>2, <1>6, <1>7 DEF BatchInv

(* An entry is done with without a call: it is answered with a, or not.    *)
LEMMA QuietEntry ==
    ASSUME BatchInv, AtEntry, batch, role # Nobody, NEW a \in AnswerTypes,
           IF Answerable(at) = Answerable(at - 1) THEN UNCHANGED answers ELSE Answered(a),
           ~MaySend(role, Entry),
           \/ ~Entry.rpc /\ a = Error("invalid_request")
           \/ Entry.rpc /\ a = Error(Verdict(Entry)),
           at' = at + 1, UNCHANGED <<request, pc, calls, http>>
    PROVE  BatchInv'
<1>1. /\ at \in 1 .. Len(body) /\ answers \in Seq(AnswerRecords) /\ Len(body) \in Nat
      /\ pc = "next" /\ calls \in Seq(CallRecords)
      /\ InOrder(calls, Sendable(at - 1)) /\ InOrder(answers, Answerable(at - 1))
    BY DEF BatchInv, TypeOK, BatchSoFar, AtEntry
<1>2. at \in Nat \ {0} /\ at \in Nat
    BY <1>1
<1>3. /\ Sendable(at) = Sendable(at - 1)
      /\ Answerable(at) \in {Answerable(at - 1), Answerable(at - 1) \cup {at}}
      /\ Sendable(at - 1) \subseteq 1 .. at - 1
      /\ Answerable(at - 1) \subseteq 1 .. at - 1
    BY <1>2, NextEntry DEF Entry
<1>4. at \notin Answerable(at - 1) /\ \A j \in DOMAIN calls : calls[j].entry < at
    BY <1>1, <1>2, <1>3, EntriesBelow
<1>5. /\ \A n : Sendable(n)' = Sendable(n) /\ Answerable(n)' = Answerable(n)
    BY SameRequest
<1>n. \E n \in Nat : Len(answers) = n
    BY <1>1
<1>m. PICK n \in Nat : Len(answers) = n
    BY <1>n
<1>6. /\ answers' \in Seq(AnswerRecords) /\ InOrder(answers', Answerable(at))
      /\ DOMAIN answers = 1 .. n
      /\ \A k \in DOMAIN answers : answers'[k] = answers[k]
      /\ \/ DOMAIN answers' = 1 .. n
         \/ /\ DOMAIN answers' = 1 .. n + 1
            /\ answers'[n + 1] = [entry |-> at, answer |-> a]
  <2>1. CASE Answerable(at) = Answerable(at - 1)
      BY <1>1, <1>m, <2>1
  <2>2. CASE Answerable(at) # Answerable(at - 1)
    <3>1. at \in Nat
        BY <1>2
    <3>2. answers \in Seq(AnswerRecords)
        BY <1>1
    <3>3. Answered(a) /\ Answerable(at) = Answerable(at - 1) \cup {at}
        BY <1>3, <2>2
    <3>4. Answered(a)
        BY <3>3
    <3> QED BY <1>1, <1>3, <1>m, <3>1, <3>2, <3>3, <3>4, AnswerAppended
  <2> QED BY <2>1, <2>2
<1>7. TypeOK'
    BY <1>1, <1>6 DEF BatchInv, TypeOK, request
<1>8. BatchSoFar'
  <2>1. at' - 1 = at /\ pc' = "next"
      BY <1>1, <1>2
  <2>2. InOrder(calls', Sendable(at)) /\ InOrder(answers', Answerable(at))
      BY <1>1, <1>3, <1>6
  <2> QED BY <2>1, <2>2, SoFarNext
<1>9. EveryEntrySent' /\ AnswersInOrder'
    BY <1>1 DEF EveryEntrySent, AnswersInOrder
<1>10. AnswersDue'
  <2>1. \A k \in 1 .. n : AloneHere(k) => AloneHere(k)'
      BY <1>6, AloneKept
  <2>2. DOMAIN answers' = 1 .. n + 1 => AloneHere(n + 1)'
    <3>1. SUFFICES ASSUME DOMAIN answers' = 1 .. n + 1
                   PROVE  AloneHere(n + 1)'
        OBVIOUS
    <3>2. answers'[n + 1] = [entry |-> at, answer |-> a]
      <4>1. n + 1 \in 1 .. n + 1 /\ n + 1 \notin 1 .. n
          BY <1>6
      <4> QED BY <1>6, <3>1, <4>1
    <3>3. /\ answers'[n + 1].entry = at
          /\ answers'[n + 1].answer = a
          /\ body'[at] = Entry
        BY <3>2 DEF Entry, request
    <3>5. \A m : Verdict(m)' = Verdict(m)
        BY SameRequest
    <3>6. {c \in DOMAIN calls' : calls'[c].entry = at} = {}
        BY <1>1, <1>2, <1>4
    <3>7. CASE ~Entry.rpc /\ a = Error("invalid_request")
        BY <3>3, <3>7 DEF AloneHere, Error
    <3>8. CASE Entry.rpc /\ a = Error(Verdict(Entry))
        BY <3>3, <3>5, <3>6, <3>8 DEF AloneHere, Error
    <3> QED BY <3>7, <3>8
  <2>3. AnswersDue
      BY DEF BatchInv
  <2>4. n \in Nat
      OBVIOUS
  <2>5. DOMAIN answers = 1 .. n
      BY <1>6
  <2>6. UNCHANGED request
      OBVIOUS
  <2>7. \/ DOMAIN answers' = 1 .. n
        \/ DOMAIN answers' = 1 .. n + 1 /\ AloneHere(n + 1)'
      BY <1>6, <2>2
  <2> QED BY <2>1, <2>3, <2>4, <2>5, <2>6, <2>7, AloneNext
<1> QED BY <1>7, <1>8, <1>9, <1>10 DEF BatchInv

LEMMA EntryNotRpcStep == ASSUME BatchInv, EntryNotRpc, batch, role # Nobody PROVE BatchInv'
<1>1. at \in Nat \ {0}
    BY DEF BatchInv, TypeOK
<1>2. Answerable(at) # Answerable(at - 1)
  <2>1. at \in Answerable(at) /\ at \notin Answerable(at - 1)
      BY <1>1 DEF Answerable, EntryNotRpc, Entry
  <2> QED BY <2>1
<1>3. Error("invalid_request") \in AnswerTypes
    BY AnswersTyped DEF Codes
<1>4. ~MaySend(role, Entry) /\ ~Entry.rpc
    BY DEF EntryNotRpc, MaySend
<1>5. /\ IF Answerable(at) = Answerable(at - 1) THEN UNCHANGED answers
                                                ELSE Answered(Error("invalid_request"))
      /\ AtEntry /\ at' = at + 1 /\ UNCHANGED <<request, pc, calls, http>>
    BY <1>2 DEF EntryNotRpc
<1> QED BY <1>3, <1>4, <1>5, QuietEntry

LEMMA EntryDeniedStep == ASSUME BatchInv, EntryDenied, batch, role # Nobody PROVE BatchInv'
<1>1. at \in Nat \ {0} /\ config.default_allow \in BOOLEAN
    BY DEF BatchInv, TypeOK
<1>2. Answerable(at) = Answerable(at - 1) <=> ~Entry.id
  <2>1. at \in Answerable(at) <=> Entry.id
      BY <1>1 DEF Answerable, EntryDenied, Entry
  <2>2. Answerable(at) = IF Entry.id THEN Answerable(at - 1) \cup {at} ELSE Answerable(at - 1)
      BY <1>1, NextEntry DEF EntryDenied, Entry
  <2>3. at \notin Answerable(at - 1)
      BY <1>1 DEF Answerable
  <2> QED BY <2>2, <2>3
<1>3. Error(Verdict(Entry)) \in AnswerTypes
    BY AnswersTyped DEF EntryDenied
<1>4. Entry.rpc /\ ~MaySend(role, Entry)
    BY <1>1, AllowedIffMaySend DEF EntryDenied
<1>5. /\ IF Answerable(at) = Answerable(at - 1) THEN UNCHANGED answers
                                                ELSE Answered(Error(Verdict(Entry)))
      /\ AtEntry /\ at' = at + 1 /\ UNCHANGED <<request, pc, calls, http>>
    BY <1>2 DEF EntryDenied
<1> QED BY <1>3, <1>4, <1>5, QuietEntry

LEMMA ForwardStep ==
    ASSUME BatchInv, Send, role # Nobody, Entry.rpc, Verdict(Entry) = "allow",
           batch => AtEntry
    PROVE  BatchInv'
<1>1. at \in Nat \ {0} /\ config.default_allow \in BOOLEAN /\ role \in Roles
    BY DEF BatchInv, TypeOK
<1>2. calls \in Seq(CallRecords) /\ at \in Nat /\ role \in Roles
    BY <1>1 DEF BatchInv, TypeOK
<1>3. UNCHANGED <<request, at, answers, http>> /\ pc' = "waiting"
    BY DEF Send
<1>4. /\ calls' \in Seq(CallRecords)
      /\ \E n \in Nat : n = Len(calls) /\ DOMAIN calls = 1 .. n /\ DOMAIN calls' = 1 .. n + 1
                        /\ Len(calls') = n + 1 /\ calls'[n + 1].entry = at
      /\ \A k \in DOMAIN calls : calls'[k] = calls[k]
      /\ \A picked : picked \subseteq 1 .. at - 1 /\ InOrder(calls, picked) =>
            InOrder(calls', picked \cup {at})
    BY <1>2, CallAppended
<1>5. PICK n \in Nat : /\ DOMAIN calls = 1 .. n /\ DOMAIN calls' = 1 .. n + 1
                       /\ Len(calls') = n + 1 /\ calls'[n + 1].entry = at
    BY <1>4
<1>6. TypeOK'
    BY <1>3, <1>4 DEF BatchInv, TypeOK, request
<1>7. EveryEntrySent' /\ AnswersInOrder'
    BY <1>3 DEF EveryEntrySent, AnswersInOrder
<1>8. CASE ~batch
  <2>1. BatchSoFar' /\ AnswersDue'
      BY <1>3, <1>8 DEF BatchSoFar, AnswersDue, request
  <2> QED BY <1>6, <1>7, <2>1 DEF BatchInv
<1>9. CASE batch
  <2>1. /\ InOrder(calls, Sendable(at - 1)) /\ InOrder(answers, Answerable(at - 1))
        /\ at <= Len(body) /\ pc = "next"
      BY <1>9 DEF BatchInv, BatchSoFar, AtEntry
  <2>2. MaySend(role, body[at])
      BY <1>1, AllowedIffMaySend DEF Entry
  <2>3. /\ Sendable(at) = Sendable(at - 1) \cup {at}
        /\ Sendable(at - 1) \subseteq 1 .. at - 1
        /\ Answerable(at - 1) \subseteq 1 .. at - 1
      BY <1>1, <2>2, NextEntry
  <2>4. InOrder(calls', Sendable(at))
      BY <1>4, <2>1, <2>3
  <2>5. \A m : Sendable(m)' = Sendable(m) /\ Answerable(m)' = Answerable(m)
      BY <1>3, SameRequest
  <2>6. BatchSoFar'
    <3>1. \A m : m = at => Sendable(m)' = Sendable(m) /\ Answerable(m - 1)' = Answerable(m - 1)
        BY <2>5
    <3>2. PICK m \in Nat : m = at
        BY <1>1
    <3>3. /\ Sendable(m)' = Sendable(m) /\ Answerable(m - 1)' = Answerable(m - 1)
          /\ at' = m
        BY <1>3, <2>5, <3>2
    <3>4. InOrder(calls', Sendable(at)') /\ InOrder(answers', Answerable(at - 1)')
        BY <1>3, <2>1, <2>4, <3>2, <3>3
    <3>5. at' <= Len(body') /\ Entry'.rpc /\ calls'[Len(calls')].entry = at'
        BY <1>3, <1>5, <2>1 DEF Entry, request
    <3> QED BY <1>3, <3>4, <3>5 DEF BatchSoFar
  <2>7. AnswersDue'
    <3>1. \A k \in DOMAIN answers : answers[k].entry < at
        BY <1>1, <2>1, <2>3, EntriesBelow
    <3>2. \A c \in DOMAIN calls' : calls'[c].entry # at => c \in DOMAIN calls /\ calls'[c] = calls[c]
        BY <1>4, <1>5
    <3>3. \A c \in DOMAIN calls : c \in DOMAIN calls' /\ calls'[c] = calls[c]
        BY <1>4, <1>5
    <3>4. PICK m \in Nat : m = Len(answers) /\ DOMAIN answers = 1 .. m
        BY DEF BatchInv, TypeOK
    <3>5. \A k \in 1 .. m : AloneHere(k) => AloneHere(k)'
      <4>1. SUFFICES ASSUME NEW k \in 1 .. m, AloneHere(k) PROVE AloneHere(k)'
          OBVIOUS
      <4>2. answers[k].entry # at /\ answers'[k] = answers[k]
          BY <1>1, <1>3, <3>1, <3>4
      <4>3. UNCHANGED request
          BY <1>3
      <4> QED BY <3>2, <3>3, <4>1, <4>2, <4>3, AloneKept
    <3>6. DOMAIN answers' = 1 .. m
        BY <1>3, <3>4
    <3>7. UNCHANGED request /\ AnswersDue
        BY <1>3 DEF BatchInv
    <3> QED BY <3>4, <3>5, <3>6, <3>7, AloneNext
  <2> QED BY <1>6, <1>7, <2>6, <2>7 DEF BatchInv
<1> QED BY <1>8, <1>9

LEMMA EntrySettledStep == ASSUME BatchInv, IInv, EntrySettled, role # Nobody PROVE BatchInv'
<1>1. PICK outcome \in Outcomes :
        /\ pc = "waiting" /\ batch
        /\ Settled(outcome)
        /\ IF Entry.id THEN Answered(BatchAnswer(Entry, outcome)) ELSE UNCHANGED answers
        /\ at' = at + 1 /\ pc' = "next"
        /\ UNCHANGED <<request, http>>
    BY DEF EntrySettled
<1>2. /\ at \in Nat \ {0} /\ at <= Len(body) /\ Len(body) \in Nat /\ Entry.rpc
      /\ calls \in Seq(CallRecords) /\ calls # <<>>
      /\ calls[Len(calls)].entry = at
      /\ InOrder(calls, Sendable(at)) /\ InOrder(answers, Answerable(at - 1))
    BY <1>1 DEF BatchInv, TypeOK, BatchSoFar, IInv, CallsJudged
<1>3. answers \in Seq(AnswerRecords) /\ at \in Nat
    BY <1>2 DEF BatchInv, TypeOK
<1>4. PICK n \in Nat \ {0} :
        /\ n = Len(calls) /\ DOMAIN calls = 1 .. n
        /\ calls' \in Seq(CallRecords) /\ DOMAIN calls' = 1 .. n
        /\ \A k \in 1 .. n : calls'[k].entry = calls[k].entry
        /\ \A k \in 1 .. n : k # n => calls'[k] = calls[k]
        /\ calls'[n].outcome = outcome
        /\ InOrder(calls', Sendable(at))
  <2>1. calls \in Seq(CallRecords)
      BY <1>2
  <2>2. calls # <<>> /\ Settled(outcome)
      BY <1>1, <1>2
  <2> QED BY <1>2, <2>1, <2>2, CallSettled
<1>5. /\ Answerable(at) = IF Entry.id THEN Answerable(at - 1) \cup {at} ELSE Answerable(at - 1)
      /\ Answerable(at - 1) \subseteq 1 .. at - 1
    BY <1>2, NextEntry DEF Entry
<1>6. BatchAnswer(Entry, outcome) \in AnswerTypes
    BY AnswersTyped
<1>7. PICK m \in Nat :
        /\ m = Len(answers) /\ DOMAIN answers = 1 .. m
        /\ answers' \in Seq(AnswerRecords) /\ InOrder(answers', Answerable(at))
        /\ \A k \in 1 .. m : answers'[k] = answers[k]
        /\ \/ DOMAIN answers' = 1 .. m
           \/ /\ DOMAIN answers' = 1 .. m + 1
              /\ answers'[m + 1] = [entry |-> at, answer |-> BatchAnswer(Entry, outcome)]
  <2>1. CASE ~Entry.id
      BY <1>1, <1>2, <1>3, <1>5, <2>1
  <2>2. CASE Entry.id
    <3>1. Answered(BatchAnswer(Entry, outcome)) /\ at \in Nat
        BY <1>1, <1>3, <2>2
    <3>2. answers \in Seq(AnswerRecords)
        BY <1>3
    <3> QED BY <1>2, <1>5, <1>6, <2>2, <3>1, <3>2, AnswerAppended
  <2> QED BY <2>1, <2>2
<1>8. TypeOK'
    BY <1>1, <1>2, <1>4, <1>7 DEF BatchInv, TypeOK, request
<1>9. BatchSoFar'
  <2>1. at' - 1 = at
      BY <1>1, <1>2
  <2> QED BY <1>1, <1>4, <1>7, <2>1, SoFarNext
<1>10. EveryEntrySent' /\ AnswersInOrder'
    BY <1>1 DEF EveryEntrySent, AnswersInOrder
<1>11. AnswersDue'
  <2>1. \A c \in 1 .. n : calls[c].entry # at => c # n
      BY <1>2, <1>4
  <2>2. \A k \in 1 .. m : answers[k].entry < at
      BY <1>2, <1>3, <1>5, <1>7, EntriesBelow
  <2>3. \A k \in 1 .. m : AloneHere(k) => AloneHere(k)'
    <3>1. SUFFICES ASSUME NEW k \in 1 .. m, AloneHere(k) PROVE AloneHere(k)'
        OBVIOUS
    <3>2. answers[k].entry # at /\ answers'[k] = answers[k]
        BY <1>3, <1>7, <2>2
    <3>3. UNCHANGED request
        BY <1>1
    <3>4. \A c \in 1 .. n : calls[c].entry = answers[k].entry => calls'[c] = calls[c]
        BY <1>4, <2>1, <3>2
    <3>5. /\ \A c \in DOMAIN calls' :
                calls'[c].entry = answers[k].entry => c \in DOMAIN calls /\ calls'[c] = calls[c]
          /\ \A c \in DOMAIN calls :
                calls[c].entry = answers[k].entry => c \in DOMAIN calls' /\ calls'[c] = calls[c]
        BY <1>4, <3>4
    <3> QED BY <3>1, <3>2, <3>3, <3>5, AloneKept
  <2>4. ASSUME DOMAIN answers' = 1 .. m + 1 PROVE AloneHere(m + 1)'
    <3>1. answers'[m + 1] = [entry |-> at, answer |-> BatchAnswer(Entry, outcome)]
      <4>1. m + 1 \in 1 .. m + 1 /\ m + 1 \notin 1 .. m
          OBVIOUS
      <4> QED BY <1>7, <2>4, <4>1
    <3>2. /\ answers'[m + 1].entry = at
          /\ answers'[m + 1].answer = BatchAnswer(Entry, outcome)
          /\ body'[at] = Entry
        BY <1>1, <3>1 DEF Entry, request
    <3>3. n \in DOMAIN calls' /\ calls'[n].entry = at /\ calls'[n].outcome = outcome
        BY <1>2, <1>4
    <3>4. \A r, o : Due(r, o)' = Due(r, o)
        BY <1>1, SameRequest
    <3>5. BatchAnswer(Entry, outcome) = Due(Entry, outcome)
        BY DEF BatchAnswer, Due, SingleAnswer, Outcomes
    <3> QED BY <1>2, <3>2, <3>3, <3>4, <3>5 DEF AloneHere
  <2>5. \/ DOMAIN answers' = 1 .. m
        \/ DOMAIN answers' = 1 .. m + 1 /\ AloneHere(m + 1)'
      BY <1>7, <2>4
  <2>6. UNCHANGED request /\ AnswersDue
      BY <1>1 DEF BatchInv
  <2> QED BY <1>7, <2>3, <2>5, <2>6, AloneNext
<1> QED BY <1>8, <1>9, <1>10, <1>11 DEF BatchInv

LEMMA SingleSettledStep == ASSUME BatchInv, IInv, SingleSettled PROVE BatchInv'
<1>1. PICK outcome \in Outcomes :
        /\ pc = "waiting" /\ ~batch
        /\ Settled(outcome)
        /\ Answered(SingleAnswer(Entry, outcome))
        /\ http' \in SingleStatus(outcome) /\ pc' = "done"
        /\ UNCHANGED <<request, at>>
    BY DEF SingleSettled
<1>2. calls \in Seq(CallRecords) /\ calls # <<>>
    BY <1>1 DEF BatchInv, TypeOK, IInv, CallsJudged
<1>3. calls' \in Seq(CallRecords)
  <2>1. calls \in Seq(CallRecords)
      BY <1>2
  <2>2. calls # <<>> /\ Settled(outcome)
      BY <1>1, <1>2
  <2> QED BY <2>1, <2>2, CallSettled
<1>4. SingleAnswer(Entry, outcome) \in AnswerTypes
    BY AnswersTyped
<1>5. http' \in {200, 400, 401, 500, 502, 504} \cup Statuses
    BY <1>1 DEF SingleStatus
<1> QED BY <1>1, <1>3, <1>4, <1>5, EndStep

LEMMA EndBatchStep == ASSUME BatchInv, EndBatch, batch PROVE BatchInv'
<1>1. /\ at = Len(body) + 1 /\ Len(body) \in Nat /\ at - 1 = Len(body)
      /\ InOrder(calls, Sendable(at - 1)) /\ InOrder(answers, Answerable(at - 1))
    BY DEF BatchInv, TypeOK, BatchSoFar, EndBatch
<1>2. PICK n \in Nat : n = Len(body) /\ InOrder(calls, Sendable(n)) /\ InOrder(answers, Answerable(n))
    BY <1>1
<1>3. UNCHANGED <<request, at, calls, answers>> /\ pc' = "done" /\ http' \in {200, 202}
    BY DEF EndBatch
<1>4. Sendable(n)' = Sendable(n) /\ Answerable(n)' = Answerable(n)
    BY <1>3, SameRequest
<1>5. Len(body') = n
    BY <1>2, <1>3 DEF request
<1>6. TypeOK'
    BY <1>3 DEF BatchInv, TypeOK, request
<1>7. EveryEntrySent' /\ AnswersInOrder'
  <2>1. InOrder(calls', Sendable(Len(body))') /\ InOrder(answers', Answerable(Len(body))')
      BY <1>2, <1>3, <1>4, <1>5
  <2> QED BY <2>1 DEF EveryEntrySent, AnswersInOrder
<1>8. BatchSoFar'
    BY <1>3 DEF BatchSoFar
<1>9. AnswersDue'
  <2>1. AnswersDue
      BY DEF BatchInv
  <2>2. \A m : Verdict(m)' = Verdict(m)
      BY <1>3, SameRequest
  <2>3. \A m, o : Due(m, o)' = Due(m, o)
      BY <1>3, SameRequest
  <2> QED BY <1>3, <2>1, <2>2, <2>3 DEF AnswersDue, request, Error
<1> QED BY <1>6, <1>7, <1>8, <1>9 DEF BatchInv

LEMMA RaiseStep == ASSUME BatchInv, IInv, Raise PROVE BatchInv'
<1>1. /\ \E outcome \in Outcomes : Settled(outcome)
      /\ http' = 500 /\ pc' = "raised" /\ answers' = <<>> /\ UNCHANGED <<request, at>>
    BY DEF Raise
<1>2. calls \in Seq(CallRecords)
    BY DEF BatchInv, TypeOK
<1>3. calls # <<>>
    BY DEF Raise, IInv, CallsJudged
<1>4. calls' \in Seq(CallRecords)
  <2>1. PICK outcome \in Outcomes : Settled(outcome)
      BY <1>1
  <2>2. Settled(outcome)
      BY <2>1
  <2> QED BY <1>2, <1>3, <2>2, CallSettled
<1>5. TypeOK'
    BY <1>1, <1>4 DEF BatchInv, TypeOK, request
<1> QED BY <1>1, <1>5 DEF BatchInv, BatchSoFar, EveryEntrySent, AnswersInOrder, AnswersDue

LEMMA BatchStep == IInv /\ BatchInv /\ [Next]_vars => BatchInv'
<1> SUFFICES ASSUME IInv, BatchInv, [Next]_vars PROVE BatchInv'
    OBVIOUS
<1>1. calls \in Seq(CallRecords) /\ UNCHANGED calls => calls' \in Seq(CallRecords)
    OBVIOUS
<1>2. calls \in Seq(CallRecords)
    BY DEF BatchInv, TypeOK
<1>3. /\ Error("unauthenticated") \in AnswerTypes /\ Error("parse_error") \in AnswerTypes
      /\ Error("invalid_request") \in AnswerTypes
    BY AnswersTyped DEF Codes
<1>4. pc = "next" => batch /\ role # Nobody
    BY DEF BatchInv, BatchSoFar, IInv, CallsJudged
<1>5. pc = "waiting" => role # Nobody
  <2>1. SUFFICES ASSUME pc = "waiting" PROVE role # Nobody
      OBVIOUS
  <2>2. 1 \in DOMAIN calls
      BY <1>2, <2>1 DEF IInv, CallsJudged
  <2> QED BY <2>2 DEF IInv, DeniedNeverSent, MaySend
<1>6. CASE Unauthenticated
    BY <1>1, <1>2, <1>3, <1>6, EndStep DEF Unauthenticated, Reply
<1>7. CASE ParseError
    BY <1>1, <1>2, <1>3, <1>7, EndStep DEF ParseError, Reply
<1>8. CASE BatchRefused
    BY <1>1, <1>2, <1>3, <1>8, EndStep DEF BatchRefused, Reply
<1>9. CASE BeginBatch
    BY <1>9, BeginStep
<1>10. CASE SingleNotRpc
    BY <1>1, <1>2, <1>3, <1>10, EndStep DEF SingleNotRpc, Single, Reply
<1>11. CASE SingleDenied
  <2>1. Error(Verdict(Entry)) \in AnswerTypes
      BY <1>11, AnswersTyped DEF SingleDenied
  <2> QED BY <1>1, <1>2, <1>11, <2>1, EndStep DEF SingleDenied, Single, Reply
<1>12. CASE SingleForward
    BY <1>12, ForwardStep DEF SingleForward, Single
<1>13. CASE SingleSettled
    BY <1>13, SingleSettledStep
<1>14. CASE EntryNotRpc
    BY <1>4, <1>14, EntryNotRpcStep DEF EntryNotRpc, AtEntry
<1>15. CASE EntryDenied
    BY <1>4, <1>15, EntryDeniedStep DEF EntryDenied, AtEntry
<1>16. CASE EntryForward
    BY <1>4, <1>16, ForwardStep DEF EntryForward, AtEntry
<1>17. CASE EntrySettled
    BY <1>5, <1>17, EntrySettledStep DEF EntrySettled
<1>18. CASE EndBatch
    BY <1>4, <1>18, EndBatchStep DEF EndBatch
<1>19. CASE Raise
    BY <1>19, RaiseStep
<1>20. CASE UNCHANGED vars
  <2>1. UNCHANGED <<config, role, batch, body, pc, at, calls, answers, http>>
      BY <1>20 DEF vars, request
  <2>2. UNCHANGED request
      BY <2>1 DEF request
  <2>3. /\ \A m : Verdict(m)' = Verdict(m)
        /\ \A m, o : Due(m, o)' = Due(m, o)
        /\ \A n : Sendable(n)' = Sendable(n) /\ Answerable(n)' = Answerable(n)
      BY <2>2, SameRequest
  <2>4. TypeOK'
      BY <2>1 DEF BatchInv, TypeOK
  <2>5. BatchSoFar' /\ EveryEntrySent' /\ AnswersInOrder'
    <3>1. PICK n : n = at
        OBVIOUS
    <3>2. PICK l : l = Len(body)
        OBVIOUS
    <3>3. /\ Sendable(at)' = Sendable(at) /\ Sendable(at - 1)' = Sendable(at - 1)
          /\ Answerable(at - 1)' = Answerable(at - 1)
          /\ Sendable(Len(body))' = Sendable(Len(body))
          /\ Answerable(Len(body))' = Answerable(Len(body))
        BY <2>1 DEF Sendable, Answerable, MaySend, Barred
    <3> QED BY <2>1, <3>3 DEF BatchInv, BatchSoFar, EveryEntrySent, AnswersInOrder, Entry
  <2>6. AnswersDue'
      BY <2>1, <2>3 DEF BatchInv, AnswersDue, Error
  <2> QED BY <2>4, <2>5, <2>6 DEF BatchInv
<1> QED BY <1>6, <1>7, <1>8, <1>9, <1>10, <1>11, <1>12, <1>13, <1>14, <1>15, <1>16, <1>17,
           <1>18, <1>19, <1>20 DEF Next

----------------------------------------------------------------------------
(* A denied call never reaches the downstream, alone or in a batch of any  *)
(* length (mcp_gateway.py:352, 444-449), and what does reach it is in the  *)
(* name of the caller.                                                     *)
THEOREM DenialHolds == Spec => []DeniedNeverSent
<1>1. IInv => DeniedNeverSent
    BY DEF IInv
<1> QED BY <1>1, InvInit, InvStep, PTL DEF Spec

LEMMA BatchAlways == Spec => []BatchInv
<1> QED BY InvInit, InvStep, BatchInit, BatchStep, PTL DEF Spec

(* What the handler keeps is well formed: every answer carries a code of   *)
(* the contract and no tool the downstream does not list.                  *)
THEOREM GatewayTypes == Spec => []TypeOK
<1>1. BatchInv => TypeOK
    BY DEF BatchInv
<1> QED BY <1>1, BatchAlways, PTL

(* A batch of any length is sent whole: no denial, malformed entry or      *)
(* failed call keeps back an entry that may be sent, doubles one or changes*)
(* their order (mcp_gateway.py:447-449).                                   *)
THEOREM BatchSentWhole == Spec => []EveryEntrySent
<1>1. BatchInv => EveryEntrySent
    BY DEF BatchInv
<1> QED BY <1>1, BatchAlways, PTL

(* And answered whole: one answer for each entry that gets one, in order,  *)
(* none for a notification.                                                *)
THEOREM BatchAnsweredWhole == Spec => []AnswersInOrder
<1>1. BatchInv => AnswersInOrder
    BY DEF BatchInv
<1> QED BY <1>1, BatchAlways, PTL

(* Every entry of a batch of any length gets the answer that is due to it: *)
(* the one it would get alone (mcp_gateway.py:461-463, 484-485), except    *)
(* that a stream, a body nested too deep and an exception that is not the  *)
(* transport's are answered as an upstream that is unavailable.            *)
THEOREM BatchAnswersDue == Spec => []AnswersDue
<1>1. BatchInv => AnswersDue
    BY DEF BatchInv
<1> QED BY <1>1, BatchAlways, PTL

(* At every entry on the way there, too.                                   *)
THEOREM BatchProceeds == Spec => []BatchSoFar
<1>1. BatchInv => BatchSoFar
    BY DEF BatchInv
<1> QED BY <1>1, BatchAlways, PTL
=============================================================================
