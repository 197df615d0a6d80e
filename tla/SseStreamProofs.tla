-------------------------- MODULE SseStreamProofs --------------------------
(***************************************************************************)
(* What the redaction of a stream promises for texts of any length, cut    *)
(* into chunks in any way, and any number of choices.                      *)
(***************************************************************************)
EXTENDS SseStream, SequenceTheorems, FiniteSetTheorems, WellFoundedInduction, TLAPS

----------------------------------------------------------------------------
(* INDUCTION.  Over the least counterexample.                              *)

LEMMA NatOrder ==
    \E R : IsWellFoundedOn(R, Nat) /\ \A m, n \in Nat : m < n => <<m, n>> \in R
<1> DEFINE R == OpToRel(<, Nat)
<1>1. IsWellFoundedOn(R, Nat)
    BY NatLessThanWellFounded
<1>2. \A m, n \in Nat : <<m, n>> \in R <=> m < n
    BY DEF OpToRel
<1> HIDE DEF R
<1> QED BY <1>1, <1>2

LEMMA Least ==
    ASSUME NEW S, S \subseteq Nat, S # {}
    PROVE  \E n \in S : \A m \in S : n <= m
<1>1. PICK R : IsWellFoundedOn(R, Nat) /\ \A m, n \in Nat : m < n => <<m, n>> \in R
    BY NatOrder
<1>2. IsWellFoundedOn(R, Nat)
    BY <1>1
<1>3. \E n \in S : \A m \in S : ~(<<m, n>> \in R)
    BY <1>2, WFMin
<1>4. PICK n \in S : \A m \in S : ~(<<m, n>> \in R)
    BY <1>3
<1>5. n \in Nat /\ \A m \in S : m \in Nat
    OBVIOUS
<1>6. \A m \in S : ~(m < n)
    BY <1>1, <1>4, <1>5
<1>7. \A m \in S : n <= m
    BY <1>5, <1>6
<1> QED BY <1>7

LEMMA Greatest ==
    ASSUME NEW S, S \subseteq Nat, S # {}, NEW n \in Nat, \A x \in S : x <= n
    PROVE  Max(S) \in S /\ \A x \in S : x <= Max(S)
<1> DEFINE D == {n - x : x \in S}
<1>1. D \subseteq Nat /\ D # {}
  <2>1. \A x \in S : n - x \in Nat
      OBVIOUS
  <2> QED BY <2>1
<1>2. PICK y \in D : \A m \in D : y <= m
  <2> HIDE DEF D
  <2> QED BY <1>1, Least
<1>3. PICK x \in S : y = n - x
    BY <1>2
<1>4. \A z \in S : z <= x
  <2> SUFFICES ASSUME NEW z \in S PROVE z <= x
      OBVIOUS
  <2>1. n - x <= n - z
      BY <1>2, <1>3
  <2>2. x \in Nat /\ z \in Nat
      OBVIOUS
  <2> QED BY <2>1, <2>2
<1>5. \E z \in S : \A w \in S : z >= w
    BY <1>4
<1>6. Max(S) \in S /\ \A w \in S : Max(S) >= w
    BY <1>5 DEF Max
<1>7. \A w \in S : w \in Nat
    OBVIOUS
<1> QED BY <1>6, <1>7

LEMMA Smallest ==
    ASSUME NEW S, S \subseteq Nat, S # {}
    PROVE  Min(S) \in S /\ \A x \in S : Min(S) <= x
BY Least DEF Min

(* What holds at 0 and at every number whose predecessor has it, up to n.  *)
LEMMA Upward ==
    ASSUME NEW G, NEW a \in Nat, NEW n \in Nat, a \in G,
           \A k \in a + 1 .. n : k - 1 \in G => k \in G
    PROVE  \A k \in a .. n : k \in G
<1> SUFFICES ASSUME ~\A k \in a .. n : k \in G PROVE FALSE
    OBVIOUS
<1> DEFINE B == {k \in a .. n : k \notin G}
<1>1. B \subseteq Nat /\ B # {}
    OBVIOUS
<1>2. PICK k \in B : \A m \in B : k <= m
  <2> HIDE DEF B
  <2> QED BY <1>1, Least
<1>3. k # a /\ k \in a + 1 .. n /\ k - 1 \in a .. n
    BY <1>2
<1>4. k - 1 \notin B
    BY <1>2, <1>3
<1> QED BY <1>2, <1>3, <1>4

(* The same from n downward, for numbers all those above have it.          *)
LEMMA Downward ==
    ASSUME NEW G, NEW a \in Nat, NEW n \in Nat,
           \A k \in a .. n : (\A j \in k + 1 .. n : j \in G) => k \in G
    PROVE  \A k \in a .. n : k \in G
<1> SUFFICES ASSUME ~\A k \in a .. n : k \in G PROVE FALSE
    OBVIOUS
<1> DEFINE B == {k \in a .. n : k \notin G}
<1>1. B \subseteq Nat /\ B # {} /\ \A x \in B : x <= n
    OBVIOUS
<1>2. Max(B) \in B /\ \A x \in B : x <= Max(B)
  <2> HIDE DEF B
  <2> QED BY <1>1, Greatest
<1>3. PICK k \in B : \A x \in B : x <= k
    BY <1>2
<1>4. \A j \in k + 1 .. n : j \notin B
    BY <1>3
<1> QED BY <1>3, <1>4

----------------------------------------------------------------------------
(* PATTERNS.  t ends with w, d characters in.                              *)

EndsWith(t, w, d) ==
    /\ t \in Seq(Alphabet) /\ w \in Seq(Alphabet) /\ d \in Nat
    /\ Len(t) = Len(w) + d
    /\ \A k \in 1 .. Len(w) : w[k] = t[k + d]

(* T goes on after t.                                                      *)
BeginsWith(T, t) ==
    /\ T \in Seq(Alphabet) /\ t \in Seq(Alphabet)
    /\ Len(t) <= Len(T)
    /\ \A k \in 1 .. Len(t) : T[k] = t[k]

Count(t, C, i, j) == Cardinality({k \in i .. j : t[k] \in C})

LEMMA CountShift ==
    ASSUME NEW t, NEW w, NEW C, NEW d \in Nat, NEW i \in Nat, NEW j \in Nat,
           \A k \in i .. j : w[k] = t[k + d]
    PROVE  Count(w, C, i, j) = Count(t, C, i + d, j + d)
<1> DEFINE A == {k \in i .. j : w[k] \in C}
           B == {k \in i + d .. j + d : t[k] \in C}
           f == [k \in A |-> k + d]
<1>1. f \in [A -> B]
    OBVIOUS
<1>2. f \in Injection(A, B)
    BY <1>1 DEF Injection, IsInjective
<1>3. \A b \in B : b - d \in A /\ f[b - d] = b
    OBVIOUS
<1>4. f \in Surjection(A, B)
    BY <1>1, <1>3 DEF Surjection
<1>5. ExistsBijection(A, B)
    BY <1>2, <1>4 DEF ExistsBijection, Bijection
<1>6. IsFiniteSet(A)
  <2>1. IsFiniteSet(i .. j) /\ A \in SUBSET (i .. j)
      BY FS_Interval
  <2> HIDE DEF A
  <2> QED BY <2>1, FS_Subset
<1> HIDE DEF A, B
<1>7. Cardinality(B) = Cardinality(A)
    BY <1>5, <1>6, FS_Bijection
<1> QED BY <1>7 DEF A, B, Count

LEMMA SpanShift ==
    ASSUME NEW t, NEW w, NEW d, EndsWith(t, w, d), NEW C,
           NEW a \in Nat \ {0}, NEW b \in Nat, b <= Len(w)
    PROVE  Span(w, C, a, b) <=> Span(t, C, a + d, b + d)
<1>1. d \in Nat /\ Len(w) \in Nat
    BY DEF EndsWith
<1>2. \A k \in a .. b : w[k] = t[k + d] /\ k + d \in a + d .. b + d
    BY <1>1 DEF EndsWith
<1>3. \A k \in a + d .. b + d : k - d \in a .. b /\ (k - d) + d = k
    BY <1>1
<1> QED BY <1>2, <1>3 DEF Span

LEMMA EmailShift ==
    ASSUME NEW t, NEW w, NEW d, EndsWith(t, w, d), NEW i \in 1 .. Len(w), NEW j \in Nat
    PROVE  j \in EmailEnds(w, i) <=> j + d \in EmailEnds(t, i + d)
<1>1. d \in Nat /\ Len(w) \in Nat /\ Len(t) = Len(w) + d /\ i \in Nat
    BY DEF EndsWith
<1>2. j \in Within(i, 2, 4, w) <=> j + d \in Within(i + d, 2, 4, t)
    BY <1>1 DEF Within
<1>3. \A a, b : a \in Nat \ {0} /\ b \in Nat /\ b <= Len(w) =>
          (Span(w, Digits, a, b) <=> Span(t, Digits, a + d, b + d))
    BY SpanShift
<1> DEFINE Mid(s, x, y, at) == /\ at < y /\ y <= at + 2
                               /\ s[at] = "@" /\ Span(s, Digits, x, at - 1) /\ Span(s, Digits, at + 1, y)
<1>4. ASSUME NEW at \in {i + 1, i + 2}, j <= Len(w)
      PROVE  Mid(w, i, j, at) <=> Mid(t, i + d, j + d, at + d)
  <2>1. CASE at < j
    <3>1. w[at] = t[at + d]
        BY <1>1, <1>4, <2>1 DEF EndsWith
    <3>2. Span(w, Digits, i, at - 1) <=> Span(t, Digits, i + d, (at + d) - 1)
      <4>1. at - 1 \in Nat /\ at - 1 <= Len(w) /\ (at - 1) + d = (at + d) - 1
          BY <1>1, <1>4, <2>1
      <4>2. Span(w, Digits, i, at - 1) <=> Span(t, Digits, i + d, (at - 1) + d)
          BY <1>3, <4>1
      <4> QED BY <4>1, <4>2
    <3>3. Span(w, Digits, at + 1, j) <=> Span(t, Digits, (at + d) + 1, j + d)
      <4>1. at + 1 \in Nat \ {0} /\ (at + 1) + d = (at + d) + 1
          BY <1>1, <1>4, <2>1
      <4>2. Span(w, Digits, at + 1, j) <=> Span(t, Digits, (at + 1) + d, j + d)
          BY <1>3, <1>4, <4>1
      <4> QED BY <4>1, <4>2
    <3>4. at < j <=> at + d < j + d
        BY <1>1, <1>4
    <3>5. j <= at + 2 <=> j + d <= (at + d) + 2
        BY <1>1, <1>4
    <3> QED BY <3>1, <3>2, <3>3, <3>4, <3>5
  <2>2. CASE ~(at < j)
    <3>1. ~(at + d < j + d)
        BY <1>1, <1>4, <2>2
    <3> QED BY <2>2, <3>1
  <2> QED BY <2>1, <2>2
<1>5. j \in Within(i, 2, 4, w) => j <= Len(w)
    BY <1>1 DEF Within
<1>6. j + d \in Within(i + d, 2, 4, t) => j <= Len(w)
    BY <1>2, <1>5
<1>7. ASSUME j <= Len(w)
      PROVE  (\E at \in {i + 1, i + 2} : Mid(w, i, j, at))
                 <=> (\E at \in {(i + d) + 1, (i + d) + 2} : Mid(t, i + d, j + d, at))
  <2> HIDE DEF Mid
  <2>1. (i + d) + 1 = (i + 1) + d /\ (i + d) + 2 = (i + 2) + d
      BY <1>1
  <2> QED BY <1>4, <1>7, <2>1
<1>8. j \in EmailEnds(w, i) <=> j \in Within(i, 2, 4, w) /\ \E at \in {i + 1, i + 2} : Mid(w, i, j, at)
    BY DEF EmailEnds
<1>9. j + d \in EmailEnds(t, i + d) <=>
          /\ j + d \in Within(i + d, 2, 4, t)
          /\ \E at \in {(i + d) + 1, (i + d) + 2} : Mid(t, i + d, j + d, at)
    BY DEF EmailEnds
<1> HIDE DEF Mid
<1> QED BY <1>2, <1>5, <1>7, <1>8, <1>9

LEMMA CardShift ==
    ASSUME NEW t, NEW w, NEW d, EndsWith(t, w, d), NEW i \in 1 .. Len(w), d = 0 \/ i >= 2,
           NEW j \in Nat
    PROVE  j \in CardEnds(w, i) <=> j + d \in CardEnds(t, i + d)
<1>1. d \in Nat /\ Len(w) \in Nat /\ Len(t) = Len(w) + d /\ i \in Nat \ {0}
    BY DEF EndsWith
<1>2. j \in Within(i, 1, 4, w) <=> j + d \in Within(i + d, 1, 4, t)
    BY <1>1 DEF Within
<1>3. j \in CardEnds(w, i) => j \in Within(i, 1, 4, w)
    BY DEF CardEnds
<1>4. j + d \in CardEnds(t, i + d) => j + d \in Within(i + d, 1, 4, t)
    BY DEF CardEnds
<1> SUFFICES ASSUME j \in Within(i, 1, 4, w)
             PROVE  j \in CardEnds(w, i) <=> j + d \in CardEnds(t, i + d)
    BY <1>2, <1>3, <1>4
<1>5. j \in i + 1 .. Len(w)
    BY <1>1 DEF Within
<1>6. \A k \in 1 .. Len(w) : w[k] = t[k + d]
    BY DEF EndsWith
<1>7. w[i] = t[i + d] /\ w[j] = t[j + d]
    BY <1>1, <1>5, <1>6
<1>8. Span(w, Digits \cup {" "}, i, j) <=> Span(t, Digits \cup {" "}, i + d, j + d)
  <2> DEFINE C == Digits \cup {" "}
  <2> HIDE DEF C
  <2>1. j <= Len(w)
      BY <1>1, <1>5
  <2>2. Span(w, C, i, j) <=> Span(t, C, i + d, j + d)
      BY <1>1, <2>1, SpanShift
  <2> QED BY <2>2 DEF C
<1>9. (\A k \in i .. j - 1 : w[k] # " " \/ w[k + 1] # " ")
          <=> (\A k \in i + d .. (j + d) - 1 : t[k] # " " \/ t[k + 1] # " ")
  <2>1. \A k \in i .. j - 1 : /\ k + d \in i + d .. (j + d) - 1
                              /\ w[k] = t[k + d] /\ w[k + 1] = t[(k + d) + 1]
    <3> SUFFICES ASSUME NEW k \in i .. j - 1
                 PROVE  /\ k + d \in i + d .. (j + d) - 1
                        /\ w[k] = t[k + d] /\ w[k + 1] = t[(k + d) + 1]
        OBVIOUS
    <3>1. k \in 1 .. Len(w) /\ k + 1 \in 1 .. Len(w) /\ (k + 1) + d = (k + d) + 1
        BY <1>1, <1>5
    <3>2. w[k] = t[k + d] /\ w[k + 1] = t[(k + 1) + d]
        BY <1>6, <3>1
    <3> QED BY <1>1, <1>5, <3>1, <3>2
  <2>2. \A k \in i + d .. (j + d) - 1 : k - d \in i .. j - 1 /\ (k - d) + d = k
      BY <1>1, <1>5
  <2>3. ASSUME \A k \in i .. j - 1 : w[k] # " " \/ w[k + 1] # " ", NEW k \in i + d .. (j + d) - 1
        PROVE  t[k] # " " \/ t[k + 1] # " "
    <3>1. PICK m \in i .. j - 1 : m + d = k
        BY <2>2
    <3>2. w[m] = t[m + d] /\ w[m + 1] = t[(m + d) + 1]
        BY <2>1
    <3> QED BY <2>3, <3>1, <3>2
  <2>4. ASSUME \A k \in i + d .. (j + d) - 1 : t[k] # " " \/ t[k + 1] # " ", NEW k \in i .. j - 1
        PROVE  w[k] # " " \/ w[k + 1] # " "
      BY <2>1, <2>4
  <2> QED BY <2>3, <2>4
<1>10. DigitCount(w, i, j) = DigitCount(t, i + d, j + d)
  <2>1. \A k \in i .. j : w[k] = t[k + d]
      BY <1>1, <1>5, <1>6
  <2>2. i \in Nat /\ j \in Nat /\ d \in Nat
      BY <1>1
  <2>3. Count(w, Digits, i, j) = Count(t, Digits, i + d, j + d)
      BY <2>1, <2>2, CountShift
  <2> QED BY <2>3 DEF DigitCount, Count
<1>11. i = 1 \/ w[i - 1] \notin Digits <=> i + d = 1 \/ t[(i + d) - 1] \notin Digits
  <2>1. CASE i = 1
      BY <1>1, <2>1
  <2>2. CASE i # 1
    <3>1. i - 1 \in 1 .. Len(w) /\ (i - 1) + d = (i + d) - 1 /\ i + d # 1
        BY <1>1, <2>2
    <3>2. w[i - 1] = t[(i - 1) + d]
        BY <1>6, <3>1
    <3> QED BY <2>2, <3>1, <3>2
  <2> QED BY <2>1, <2>2
<1>12. j = Len(w) \/ w[j + 1] \notin Digits <=> j + d = Len(t) \/ t[(j + d) + 1] \notin Digits
  <2>1. CASE j = Len(w)
      BY <1>1, <2>1
  <2>2. CASE j # Len(w)
    <3>1. j + 1 \in 1 .. Len(w) /\ (j + 1) + d = (j + d) + 1 /\ j + d # Len(t)
        BY <1>1, <1>5, <2>2
    <3>2. w[j + 1] = t[(j + 1) + d]
        BY <1>6, <3>1
    <3> QED BY <2>2, <3>1, <3>2
  <2> QED BY <2>1, <2>2
<1> QED BY <1>2, <1>7, <1>8, <1>9, <1>10, <1>11, <1>12, Zenon DEF CardEnds

(* Every match is two to five characters long, and lies in the text.       *)
LEMMA EndsRange ==
    ASSUME NEW t \in Seq(Alphabet), NEW i \in 1 .. Len(t), NEW j
    PROVE  /\ j \in EmailEnds(t, i) => j \in i + 2 .. i + 4 /\ j <= Len(t)
           /\ j \in CardEnds(t, i) => j \in i + 1 .. i + 4 /\ j <= Len(t)
<1>1. Len(t) \in Nat /\ i \in Nat
    OBVIOUS
<1>2. j \in EmailEnds(t, i) => j \in Within(i, 2, 4, t)
    BY DEF EmailEnds
<1>3. j \in CardEnds(t, i) => j \in Within(i, 1, 4, t)
    BY DEF CardEnds
<1> QED BY <1>1, <1>2, <1>3 DEF Within

LEMMA EndsMax ==
    ASSUME NEW t \in Seq(Alphabet), NEW i \in 1 .. Len(t)
    PROVE  /\ EmailEnds(t, i) # {} => /\ Max(EmailEnds(t, i)) \in EmailEnds(t, i)
                                      /\ \A j \in EmailEnds(t, i) : j <= Max(EmailEnds(t, i))
           /\ CardEnds(t, i) # {} => /\ Max(CardEnds(t, i)) \in CardEnds(t, i)
                                     /\ \A j \in CardEnds(t, i) : j <= Max(CardEnds(t, i))
<1> DEFINE n == Len(t)
           E == EmailEnds(t, i)
           C == CardEnds(t, i)
<1>1. n \in Nat /\ i \in Nat
    OBVIOUS
<1>2. E \subseteq Nat /\ \A x \in E : x <= n
    BY <1>1, EndsRange
<1>3. C \subseteq Nat /\ \A x \in C : x <= n
    BY <1>1, EndsRange
<1> HIDE DEF n, E, C
<1>4. E # {} => Max(E) \in E /\ \A j \in E : j <= Max(E)
    BY <1>1, <1>2, Greatest
<1>5. C # {} => Max(C) \in C /\ \A j \in C : j <= Max(C)
    BY <1>1, <1>3, Greatest
<1> QED BY <1>4, <1>5 DEF E, C

LEMMA MatchRange ==
    ASSUME NEW t \in Seq(Alphabet), NEW i \in 1 .. Len(t)
    PROVE  MatchEnd(t, i) = 0 \/ (MatchEnd(t, i) \in i + 1 .. i + 4 /\ MatchEnd(t, i) <= Len(t))
<1>1. EmailEnds(t, i) # {} =>
          Max(EmailEnds(t, i)) \in i + 1 .. i + 4 /\ Max(EmailEnds(t, i)) <= Len(t)
  <2> SUFFICES ASSUME EmailEnds(t, i) # {}
               PROVE  Max(EmailEnds(t, i)) \in i + 1 .. i + 4 /\ Max(EmailEnds(t, i)) <= Len(t)
      OBVIOUS
  <2>1. PICK m : m = Max(EmailEnds(t, i))
      OBVIOUS
  <2>2. m \in EmailEnds(t, i)
      BY <2>1, EndsMax
  <2>3. m \in i + 2 .. i + 4 /\ m <= Len(t)
      BY <2>2, EndsRange
  <2> QED BY <2>1, <2>3
<1>2. CardEnds(t, i) # {} =>
          Max(CardEnds(t, i)) \in i + 1 .. i + 4 /\ Max(CardEnds(t, i)) <= Len(t)
  <2> SUFFICES ASSUME CardEnds(t, i) # {}
               PROVE  Max(CardEnds(t, i)) \in i + 1 .. i + 4 /\ Max(CardEnds(t, i)) <= Len(t)
      OBVIOUS
  <2>1. PICK m : m = Max(CardEnds(t, i))
      OBVIOUS
  <2>2. m \in CardEnds(t, i)
      BY <2>1, EndsMax
  <2>3. m \in i + 1 .. i + 4 /\ m <= Len(t)
      BY <2>2, EndsRange
  <2> QED BY <2>1, <2>3
<1> QED BY <1>1, <1>2 DEF MatchEnd

LEMMA LuhnShift ==
    ASSUME NEW t, NEW w, NEW d, EndsWith(t, w, d), NEW i \in 1 .. Len(w), NEW j \in 1 .. Len(w)
    PROVE  LuhnOk(w, i, j) <=> LuhnOk(t, i + d, j + d)
<1>1. d \in Nat /\ i \in Nat /\ j \in Nat
    BY DEF EndsWith
<1>2. \A k \in i .. j : w[k] = t[k + d]
    BY DEF EndsWith
<1>3. Count(w, {"1"}, i, j) = Count(t, {"1"}, i + d, j + d)
    BY <1>1, <1>2, CountShift
<1>4. \A s, a, b : LuhnOk(s, a, b) <=> Count(s, {"1"}, a, b) % 2 = 0
  <2>1. \A s, a, b : {k \in a .. b : s[k] \in {"1"}} = {k \in a .. b : s[k] = "1"}
      OBVIOUS
  <2> QED BY <2>1 DEF LuhnOk, Count
<1> QED BY <1>3, <1>4

LEMMA MaxShift ==
    ASSUME NEW A, NEW B, NEW d \in Nat, A \subseteq Nat, A # {}, B \subseteq Nat,
           \A j \in Nat : j \in A <=> j + d \in B, \A j \in B : j >= d,
           NEW n \in Nat, \A j \in A : j <= n
    PROVE  B # {} /\ Max(B) = Max(A) + d
<1>1. Max(A) \in A /\ \A j \in A : j <= Max(A)
    BY Greatest
<1>2. Max(A) + d \in B /\ Max(A) \in Nat
    BY <1>1
<1>3. \A b \in B : b <= Max(A) + d
  <2> SUFFICES ASSUME NEW b \in B PROVE b <= Max(A) + d
      OBVIOUS
  <2>1. b - d \in Nat /\ (b - d) + d = b
      OBVIOUS
  <2>2. b - d \in A
      BY <2>1
  <2>3. b - d <= Max(A)
      BY <1>1, <2>2
  <2> QED BY <1>2, <2>1, <2>3
<1>4. Max(B) \in B /\ \A b \in B : b <= Max(B)
  <2>1. Max(A) + d \in Nat /\ B # {}
      BY <1>2
  <2> QED BY <1>3, <2>1, Greatest
<1>5. Max(B) \in Nat /\ Max(B) <= Max(A) + d /\ Max(A) + d <= Max(B)
    BY <1>2, <1>3, <1>4
<1> QED BY <1>2, <1>5

(* A scan of what is kept finds at a position what a scan of the whole text*)
(* finds there, if one character before it is kept.                        *)
LEMMA MatchShift ==
    ASSUME NEW t, NEW w, NEW d, EndsWith(t, w, d), NEW i \in 1 .. Len(w), d = 0 \/ i >= 2
    PROVE  MatchEnd(t, i + d) = IF MatchEnd(w, i) = 0 THEN 0 ELSE MatchEnd(w, i) + d
<1> DEFINE E == EmailEnds(w, i)
           F == EmailEnds(t, i + d)
           C == CardEnds(w, i)
           D == CardEnds(t, i + d)
<1>1. /\ t \in Seq(Alphabet) /\ w \in Seq(Alphabet) /\ d \in Nat
      /\ Len(t) = Len(w) + d /\ Len(w) \in Nat /\ i \in Nat /\ i + d \in 1 .. Len(t)
    BY DEF EndsWith
<1>2. /\ E \subseteq Nat /\ \A j \in E : j <= Len(w) /\ j > i
      /\ C \subseteq Nat /\ \A j \in C : j <= Len(w) /\ j > i
    BY <1>1, EndsRange
<1>3. F \subseteq Nat /\ D \subseteq Nat /\ \A j \in F \cup D : j >= d
  <2>1. \A j : (j \in F => j \in (i + d) + 2 .. (i + d) + 4) /\ (j \in D => j \in (i + d) + 1 .. (i + d) + 4)
      BY <1>1, EndsRange
  <2> QED BY <1>1, <2>1
<1>4. \A j \in Nat : j \in E <=> j + d \in F
    BY EmailShift
<1>5. \A j \in Nat : j \in C <=> j + d \in D
    BY CardShift
<1>6. E # {} => F # {} /\ Max(F) = Max(E) + d
  <2> HIDE DEF E, F
  <2> QED BY <1>1, <1>2, <1>3, <1>4, MaxShift
<1>7. C # {} => D # {} /\ Max(D) = Max(C) + d
  <2> HIDE DEF C, D
  <2> QED BY <1>1, <1>2, <1>3, <1>5, MaxShift
<1>8. E = {} => F = {}
  <2> HIDE DEF E, F
  <2>1. \A j \in F : j - d \in Nat /\ (j - d) + d = j
      BY <1>1, <1>3
  <2>2. \A j \in F : j - d \in E
      BY <1>4, <2>1
  <2> QED BY <2>2
<1>9. C = {} => D = {}
  <2> HIDE DEF C, D
  <2>1. \A j \in D : j - d \in Nat /\ (j - d) + d = j
      BY <1>1, <1>3
  <2>2. \A j \in D : j - d \in C
      BY <1>5, <2>1
  <2> QED BY <2>2
<1>10. C # {} => Max(C) \in C
    BY <1>1, EndsMax
<1>11. C # {} => (LuhnOk(w, i, Max(C)) <=> LuhnOk(t, i + d, Max(D)))
  <2> HIDE DEF C, D
  <2> SUFFICES ASSUME C # {} PROVE LuhnOk(w, i, Max(C)) <=> LuhnOk(t, i + d, Max(D))
      OBVIOUS
  <2>1. PICK m : m = Max(C)
      OBVIOUS
  <2>2. m \in 1 .. Len(w)
    <3>1. m \in C
        BY <1>10, <2>1
    <3>2. m \in Nat /\ m <= Len(w) /\ m > i
        BY <1>2, <3>1
    <3>3. i \in Nat /\ Len(w) \in Nat
        BY <1>1
    <3> QED BY <3>2, <3>3
  <2>3. LuhnOk(w, i, m) <=> LuhnOk(t, i + d, m + d)
      BY <2>2, LuhnShift
  <2> QED BY <1>7, <2>1, <2>3
<1>12. E # {} => Max(E) \in E
    BY <1>1, EndsMax
<1>13. (E # {} => Max(E) \in Nat /\ Max(E) > 0) /\ (C # {} => Max(C) \in Nat /\ Max(C) > 0)
  <2> HIDE DEF E, C
  <2>1. \A j \in E \cup C : j \in Nat /\ j > 0
    <3>1. i \in Nat
        BY <1>1
    <3> QED BY <1>2, <3>1
  <2> QED BY <1>10, <1>12, <2>1
<1>14. MatchEnd(w, i) = IF E # {} THEN Max(E)
                        ELSE IF C # {} /\ LuhnOk(w, i, Max(C)) THEN Max(C) ELSE 0
    BY DEF MatchEnd
<1>15. MatchEnd(t, i + d) = IF F # {} THEN Max(F)
                            ELSE IF D # {} /\ LuhnOk(t, i + d, Max(D)) THEN Max(D) ELSE 0
    BY DEF MatchEnd
<1> HIDE DEF E, F, C, D
<1> QED BY <1>6, <1>7, <1>8, <1>9, <1>11, <1>13, <1>14, <1>15

(* From i on, t may still become a match, or a longer one: holdback's test.*)
Run(t, i, j) == \/ Span(t, Digits \cup {"@"}, i, j)
                \/ t[i] \in Digits /\ Span(t, Digits \cup {" "}, i, j)
Open(t, i) == Len(t) - i < MaxHoldback /\ Run(t, i, Len(t))

LEMMA RunShorter ==
    ASSUME NEW T, NEW t, NEW i \in Int, NEW j \in Int, NEW n \in Int, i <= n, n <= j,
           \A k \in i .. n : T[k] = t[k], Run(T, i, j)
    PROVE  Run(t, i, n)
<1>1. \A C : Span(T, C, i, j) => Span(t, C, i, n)
  <2>1. \A k \in i .. n : k \in i .. j
      OBVIOUS
  <2> QED BY <2>1 DEF Span
<1>2. i \in i .. n
    OBVIOUS
<1> DEFINE D == Digits \cup {"@"}
           E == Digits \cup {" "}
<1> HIDE DEF D, E
<1>3. Span(T, D, i, j) \/ (T[i] \in Digits /\ Span(T, E, i, j))
    BY DEF Run, D, E
<1>4. Span(t, D, i, n) \/ (t[i] \in Digits /\ Span(t, E, i, n))
    BY <1>1, <1>2, <1>3
<1> QED BY <1>4 DEF Run, D, E

LEMMA OpenTail ==
    ASSUME NEW T, NEW t, BeginsWith(T, t), NEW i \in 1 .. Len(t),
           NEW j \in Nat, Len(t) <= j, j <= i + 4, Run(T, i, j)
    PROVE  Open(t, i)
<1>1. Len(t) \in Nat /\ i \in Nat /\ \A k \in 1 .. Len(t) : T[k] = t[k]
    BY DEF BeginsWith
<1>2. Len(t) - i < MaxHoldback
    BY <1>1, BoundsAssumption DEF MaxMatch
<1>3. \A k \in i .. Len(t) : T[k] = t[k]
    BY <1>1
<1>4. Run(t, i, Len(t))
    BY <1>1, <1>3, RunShorter
<1> QED BY <1>2, <1>4 DEF Open

LEMMA EmailKept ==
    ASSUME NEW T, NEW t, BeginsWith(T, t), NEW i \in 1 .. Len(t), ~Open(t, i)
    PROVE  EmailEnds(T, i) = EmailEnds(t, i)
<1>1. /\ Len(t) \in Nat /\ i \in Nat /\ \A k \in 1 .. Len(t) : T[k] = t[k]
      /\ T \in Seq(Alphabet) /\ t \in Seq(Alphabet) /\ Len(T) \in Nat /\ Len(t) <= Len(T)
      /\ i \in 1 .. Len(T)
    BY DEF BeginsWith
<1> DEFINE Mid(s, x, y, at) == /\ at < y /\ y <= at + 2
                               /\ s[at] = "@" /\ Span(s, Digits, x, at - 1) /\ Span(s, Digits, at + 1, y)
<1>2. \A s, j : j \in EmailEnds(s, i) <=> j \in Within(i, 2, 4, s) /\ \E at \in {i + 1, i + 2} : Mid(s, i, j, at)
    BY DEF EmailEnds
<1>3. ASSUME NEW j \in EmailEnds(T, i) PROVE j \in Nat /\ j <= Len(t)
  <2>1. j \in i + 2 .. i + 4 /\ j <= Len(T)
      BY <1>1, EndsRange
  <2> SUFFICES ASSUME j > Len(t) PROVE FALSE
      BY <1>1, <2>1
  <2>2. PICK at \in {i + 1, i + 2} : Mid(T, i, j, at)
    <3> HIDE DEF Mid
    <3> QED BY <1>2
  <2>3. \A k \in i .. j : k \in i .. at - 1 \/ k = at \/ k \in at + 1 .. j
      BY <1>1, <2>1, <2>2
  <2>4. \A k \in i .. j : T[k] \in Digits \cup {"@"}
      BY <2>2, <2>3 DEF Span
  <2>5. j \in Nat /\ Len(t) <= j /\ j <= i + 4
      BY <1>1, <2>1
  <2>6. Run(T, i, j)
      BY <2>4 DEF Span, Run
  <2>7. Open(t, i)
      BY <2>5, <2>6, OpenTail
  <2> QED BY <2>7
<1>4. ASSUME NEW j \in Nat, j <= Len(t) PROVE j \in EmailEnds(T, i) <=> j \in EmailEnds(t, i)
  <2>1. j \in Within(i, 2, 4, T) <=> j \in Within(i, 2, 4, t)
      BY <1>1, <1>4 DEF Within
  <2>2. ASSUME NEW at \in {i + 1, i + 2} PROVE Mid(T, i, j, at) <=> Mid(t, i, j, at)
    <3>1. CASE at < j
      <4>1. T[at] = t[at] /\ \A k \in i .. at - 1 : T[k] = t[k]
          BY <1>1, <1>4, <3>1
      <4>2. \A k \in at + 1 .. j : T[k] = t[k]
          BY <1>1, <1>4, <3>1
      <4> QED BY <4>1, <4>2 DEF Span
    <3> QED BY <3>1
  <2> HIDE DEF Mid
  <2> QED BY <1>2, <2>1, <2>2
<1>5. ASSUME NEW j \in EmailEnds(t, i) PROVE j \in Nat /\ j <= Len(t)
  <2>1. j \in i + 2 .. i + 4 /\ j <= Len(t)
      BY <1>1, EndsRange
  <2> QED BY <1>1, <2>1
<1> HIDE DEF Mid
<1> QED BY <1>3, <1>4, <1>5

LEMMA CardKept ==
    ASSUME NEW T, NEW t, BeginsWith(T, t), NEW i \in 1 .. Len(t), ~Open(t, i)
    PROVE  CardEnds(T, i) = CardEnds(t, i)
<1>1. /\ Len(t) \in Nat /\ i \in Nat /\ \A k \in 1 .. Len(t) : T[k] = t[k]
      /\ T \in Seq(Alphabet) /\ t \in Seq(Alphabet) /\ Len(T) \in Nat /\ Len(t) <= Len(T)
      /\ i \in 1 .. Len(T)
    BY DEF BeginsWith
<1>2. ASSUME NEW j \in CardEnds(T, i) PROVE j \in Nat /\ j < Len(t)
  <2>1. j \in i + 1 .. i + 4 /\ j <= Len(T)
      BY <1>1, EndsRange
  <2> SUFFICES ASSUME j >= Len(t) PROVE FALSE
      BY <1>1, <2>1
  <2>2. Run(T, i, j)
      BY DEF CardEnds, Run
  <2>3. j \in Nat /\ Len(t) <= j /\ j <= i + 4
      BY <1>1, <2>1
  <2>4. Open(t, i)
      BY <2>2, <2>3, OpenTail
  <2> QED BY <2>4
<1>3. ASSUME NEW j \in CardEnds(t, i) PROVE j \in Nat /\ j < Len(t)
  <2>1. j \in i + 1 .. i + 4 /\ j <= Len(t)
      BY <1>1, EndsRange
  <2> SUFFICES ASSUME j = Len(t) PROVE FALSE
      BY <1>1, <2>1
  <2>2. t[i] \in Digits /\ Span(t, Digits \cup {" "}, i, j)
      BY DEF CardEnds
  <2>3. \A k \in i .. j : T[k] = t[k]
      BY <1>1, <2>1
  <2>4. Run(T, i, j)
      BY <1>1, <2>2, <2>3 DEF Span, Run
  <2>5. j \in Nat /\ Len(t) <= j /\ j <= i + 4
      BY <1>1, <2>1
  <2>6. Open(t, i)
      BY <2>4, <2>5, OpenTail
  <2> QED BY <2>6
<1>4. ASSUME NEW j \in Nat, j < Len(t), j > i PROVE j \in CardEnds(T, i) <=> j \in CardEnds(t, i)
  <2>1. j \in Within(i, 1, 4, T) <=> j \in Within(i, 1, 4, t)
      BY <1>1, <1>4 DEF Within
  <2>2. \A k \in i .. j : T[k] = t[k] /\ T[k + 1] = t[k + 1]
      BY <1>1, <1>4
  <2>3. T[i] = t[i] /\ T[j] = t[j] /\ T[j + 1] = t[j + 1]
      BY <1>1, <1>4
  <2>4. i = 1 \/ T[i - 1] = t[i - 1]
      BY <1>1
  <2>5. Span(T, Digits \cup {" "}, i, j) <=> Span(t, Digits \cup {" "}, i, j)
      BY <2>2 DEF Span
  <2>6. (\A k \in i .. j - 1 : T[k] # " " \/ T[k + 1] # " ")
            <=> (\A k \in i .. j - 1 : t[k] # " " \/ t[k + 1] # " ")
    <3>1. \A k \in i .. j - 1 : k \in i .. j
        BY <1>4
    <3> QED BY <2>2, <3>1
  <2>7. DigitCount(T, i, j) = DigitCount(t, i, j)
    <3>1. {k \in i .. j : T[k] \in Digits} = {k \in i .. j : t[k] \in Digits}
        BY <2>2
    <3> QED BY <3>1 DEF DigitCount
  <2>8. j # Len(t) /\ j # Len(T)
      BY <1>1, <1>4
  <2> QED BY <2>1, <2>3, <2>4, <2>5, <2>6, <2>7, <2>8, Zenon DEF CardEnds
<1>5. \A j : j \in CardEnds(T, i) \/ j \in CardEnds(t, i) => j > i
    BY <1>1, EndsRange
<1> QED BY <1>2, <1>3, <1>4, <1>5

(* A match that is not open is not changed by what comes after it.         *)
LEMMA MatchKept ==
    ASSUME NEW T, NEW t, BeginsWith(T, t), NEW i \in 1 .. Len(t), ~Open(t, i)
    PROVE  MatchEnd(T, i) = MatchEnd(t, i)
<1>1. EmailEnds(T, i) = EmailEnds(t, i) /\ CardEnds(T, i) = CardEnds(t, i)
    BY EmailKept, CardKept
<1> DEFINE C == CardEnds(t, i)
<1>2. C # {} => (LuhnOk(T, i, Max(C)) <=> LuhnOk(t, i, Max(C)))
  <2> SUFFICES ASSUME C # {} PROVE LuhnOk(T, i, Max(C)) <=> LuhnOk(t, i, Max(C))
      OBVIOUS
  <2>1. PICK m : m = Max(C)
      OBVIOUS
  <2>2. t \in Seq(Alphabet) /\ \A k \in 1 .. Len(t) : T[k] = t[k]
      BY DEF BeginsWith
  <2>3. m \in C
      BY <2>1, <2>2, EndsMax
  <2>4. m \in i + 1 .. i + 4 /\ m <= Len(t)
      BY <2>2, <2>3, EndsRange
  <2>5. \A k \in i .. m : T[k] = t[k]
      BY <2>2, <2>4
  <2>6. {k \in i .. m : T[k] = "1"} = {k \in i .. m : t[k] = "1"}
      BY <2>5
  <2> HIDE DEF C
  <2> QED BY <2>1, <2>6 DEF LuhnOk
<1> QED BY <1>1, <1>2 DEF MatchEnd

LEMMA OpenBefore ==
    ASSUME NEW T, NEW t, BeginsWith(T, t), NEW i \in 1 .. Len(t), Open(T, i)
    PROVE  Open(t, i)
<1>1. /\ Len(t) \in Nat /\ Len(T) \in Nat /\ Len(t) <= Len(T) /\ i \in Nat
      /\ \A k \in i .. Len(t) : T[k] = t[k]
    BY DEF BeginsWith
<1>2. Len(T) - i < MaxHoldback /\ Run(T, i, Len(T))
    BY DEF Open
<1>3. Len(t) - i < MaxHoldback
    BY <1>1, <1>2, BoundsAssumption
<1>4. Run(t, i, Len(t))
    BY <1>1, <1>2, RunShorter
<1> QED BY <1>3, <1>4 DEF Open

----------------------------------------------------------------------------
(* SCANS.  What makes M the matches a scan finds from a to b, without the  *)
(* recursion: they do not overlap, and leave no match out but for those    *)
(* that begin inside another.                                              *)
IsScan(t, a, b, M) ==
    /\ \A m \in M : /\ m.first \in a .. b /\ MatchEnd(t, m.first) \in Nat \ {0}
                    /\ m = [first |-> m.first, last |-> MatchEnd(t, m.first)]
    /\ \A m, o \in M : m.first < o.first => m.last < o.first
    /\ \A i \in a .. b : MatchEnd(t, i) # 0 => \E m \in M : m.first <= i /\ i <= m.last

ScanStep(f, t, i) ==
    IF i > Len(t) THEN {}
    ELSE IF MatchEnd(t, i) = 0 THEN f[i + 1]
    ELSE {[first |-> i, last |-> MatchEnd(t, i)]} \cup f[MatchEnd(t, i) + 1]

LEMMA ScanExists ==
    ASSUME NEW t \in Seq(Alphabet)
    PROVE  \E f : f = [i \in 1 .. Len(t) + 1 |-> ScanStep(f, t, i)]
<1> DEFINE n == Len(t) + 1
           G == {k \in 1 .. n : \E f : f = [i \in k .. n |-> ScanStep(f, t, i)]}
<1>1. n \in Nat /\ Len(t) \in Nat
    OBVIOUS
<1>2. ASSUME NEW k \in 1 .. n, \A j \in k + 1 .. n : j \in G
      PROVE  k \in G
  <2>1. PICK g : k + 1 \in 1 .. n => g = [i \in k + 1 .. n |-> ScanStep(g, t, i)]
    <3>1. CASE k + 1 \in 1 .. n
      <4>1. k + 1 \in G
          BY <1>1, <1>2, <3>1
      <4> QED BY <4>1
    <3> QED BY <3>1
  <2> DEFINE h == [i \in k .. n |-> IF i = k THEN ScanStep(g, t, k) ELSE g[i]]
  <2>2. \A i \in k .. n : i # k => h[i] = g[i]
      OBVIOUS
  <2>3. ASSUME NEW i \in k .. n PROVE h[i] = ScanStep(h, t, i)
    <3>1. ScanStep(h, t, i) = ScanStep(g, t, i)
      <4>1. CASE i > Len(t)
          BY <4>1 DEF ScanStep
      <4>2. CASE ~(i > Len(t))
        <5>1. i \in 1 .. Len(t)
            BY <1>1, <4>2
        <5>2. i + 1 \in k .. n /\ i + 1 # k
            BY <1>1, <5>1
        <5>3. MatchEnd(t, i) # 0 => MatchEnd(t, i) + 1 \in k .. n /\ MatchEnd(t, i) + 1 # k
          <6>1. MatchEnd(t, i) = 0 \/ (MatchEnd(t, i) \in i + 1 .. i + 4 /\ MatchEnd(t, i) <= Len(t))
              BY <5>1, MatchRange
          <6> QED BY <1>1, <5>1, <6>1
        <5> HIDE DEF h, n
        <5> QED BY <2>2, <5>2, <5>3 DEF ScanStep
      <4> QED BY <4>1, <4>2
    <3>2. CASE i = k
        BY <3>1, <3>2
    <3>3. CASE i # k
      <4>1. k + 1 \in 1 .. n /\ i \in k + 1 .. n
          BY <1>1, <3>3
      <4>2. g[i] = ScanStep(g, t, i)
          BY <2>1, <4>1
      <4> QED BY <2>2, <3>1, <3>3, <4>2
    <3> QED BY <3>2, <3>3
  <2>4. h = [i \in k .. n |-> h[i]]
      OBVIOUS
  <2>5. h = [i \in k .. n |-> ScanStep(h, t, i)]
    <3> HIDE DEF h
    <3> QED BY <2>3, <2>4
  <2> HIDE DEF h, n
  <2> QED BY <2>5
<1>3. \A k \in 1 .. n : k \in G
  <2> HIDE DEF n, G
  <2> QED BY <1>1, <1>2, Downward
<1>4. 1 \in G
    BY <1>1, <1>3
<1> QED BY <1>4

LEMMA ScanUnfolds ==
    ASSUME NEW t \in Seq(Alphabet)
    PROVE  \E f : /\ \A i \in 1 .. Len(t) + 1 : f[i] = ScanStep(f, t, i)
                  /\ \A i : Matches(t, i) = f[i]
<1> DEFINE f == CHOOSE f : f = [i \in 1 .. Len(t) + 1 |-> ScanStep(f, t, i)]
<1>1. f = [i \in 1 .. Len(t) + 1 |-> ScanStep(f, t, i)]
    BY ScanExists
<1>2. \A i : Matches(t, i) = f[i]
    BY DEF Matches, ScanStep
<1> HIDE DEF f
<1> QED BY <1>1, <1>2

LEMMA ScanAdds ==
    ASSUME NEW t \in Seq(Alphabet), NEW k \in 1 .. Len(t), MatchEnd(t, k) # 0,
           NEW M, IsScan(t, MatchEnd(t, k) + 1, Len(t), M)
    PROVE  IsScan(t, k, Len(t), {[first |-> k, last |-> MatchEnd(t, k)]} \cup M)
<1> DEFINE e == MatchEnd(t, k)
           c == [first |-> k, last |-> e]
           N == {c} \cup M
<1>1. e \in Nat /\ k < e /\ e <= Len(t) /\ Len(t) \in Nat /\ k \in Nat
    BY MatchRange
<1>2. c.first = k /\ c.last = e
    OBVIOUS
<1>3. /\ \A m \in M : /\ m.first \in e + 1 .. Len(t) /\ MatchEnd(t, m.first) \in Nat \ {0}
                      /\ m = [first |-> m.first, last |-> MatchEnd(t, m.first)]
      /\ \A m, o \in M : m.first < o.first => m.last < o.first
      /\ \A i \in e + 1 .. Len(t) : MatchEnd(t, i) # 0 => \E m \in M : m.first <= i /\ i <= m.last
    BY DEF IsScan
<1>4. \A m \in N : /\ m.first \in k .. Len(t) /\ MatchEnd(t, m.first) \in Nat \ {0}
                   /\ m = [first |-> m.first, last |-> MatchEnd(t, m.first)]
  <2> SUFFICES ASSUME NEW m \in N
               PROVE  /\ m.first \in k .. Len(t) /\ MatchEnd(t, m.first) \in Nat \ {0}
                      /\ m = [first |-> m.first, last |-> MatchEnd(t, m.first)]
      OBVIOUS
  <2>1. CASE m = c
      BY <1>1, <1>2, <2>1
  <2>2. CASE m \in M
    <3>1. m.first \in k .. Len(t)
      <4>1. m.first \in e + 1 .. Len(t)
          BY <1>3, <2>2
      <4> HIDE DEF e
      <4> QED BY <1>1, <4>1
    <3> QED BY <1>3, <2>2, <3>1
  <2> QED BY <2>1, <2>2
<1>5. \A m, o \in N : m.first < o.first => m.last < o.first
  <2> SUFFICES ASSUME NEW m \in N, NEW o \in N, m.first < o.first PROVE m.last < o.first
      OBVIOUS
  <2>1. \A x \in M : x.first \in e + 1 .. Len(t)
      BY <1>3
  <2> HIDE DEF e, c
  <2>2. \A x \in M : x.first \in Nat /\ e < x.first
      BY <1>1, <2>1
  <2>3. CASE m = c /\ o = c
      BY <1>1, <1>2, <2>3
  <2>4. CASE m = c /\ o \in M
      BY <1>2, <2>2, <2>4
  <2>5. CASE m \in M /\ o = c
      BY <1>1, <1>2, <2>2, <2>5
  <2>6. CASE m \in M /\ o \in M
      BY <1>3, <2>6
  <2> QED BY <2>3, <2>4, <2>5, <2>6
<1>6. \A i \in k .. Len(t) : MatchEnd(t, i) # 0 => \E m \in N : m.first <= i /\ i <= m.last
  <2> SUFFICES ASSUME NEW i \in k .. Len(t), MatchEnd(t, i) # 0
               PROVE  \E m \in N : m.first <= i /\ i <= m.last
      OBVIOUS
  <2> HIDE DEF e
  <2>1. CASE i <= e
    <3>1. c \in N
        OBVIOUS
    <3>2. c.first <= i /\ i <= c.last
        BY <1>1, <1>2, <2>1
    <3> HIDE DEF c, N
    <3> QED BY <3>1, <3>2
  <2>2. CASE ~(i <= e)
    <3>1. i \in e + 1 .. Len(t)
        BY <1>1, <2>2
    <3> QED BY <1>3, <3>1
  <2> QED BY <2>1, <2>2
<1> HIDE DEF N
<1>7. IsScan(t, k, Len(t), N)
    BY <1>4, <1>5, <1>6 DEF IsScan
<1> QED BY <1>7 DEF N

LEMMA MatchesScan ==
    ASSUME NEW t \in Seq(Alphabet), NEW from \in 1 .. Len(t) + 1
    PROVE  IsScan(t, from, Len(t), Matches(t, from))
<1> DEFINE n == Len(t) + 1
<1>1. PICK f : /\ \A i \in 1 .. Len(t) + 1 : f[i] = ScanStep(f, t, i)
               /\ \A i : Matches(t, i) = f[i]
    BY ScanUnfolds
<1> DEFINE G == {k \in 1 .. n : IsScan(t, k, Len(t), f[k])}
<1>2. n \in Nat /\ Len(t) \in Nat
    OBVIOUS
<1>3. ASSUME NEW k \in 1 .. n, \A j \in k + 1 .. n : j \in G
      PROVE  IsScan(t, k, Len(t), f[k])
  <2>1. f[k] = ScanStep(f, t, k)
      BY <1>1
  <2>2. CASE k > Len(t)
    <3>1. f[k] = {}
        BY <2>1, <2>2 DEF ScanStep
    <3>2. k .. Len(t) = {}
        BY <1>2, <2>2
    <3> QED BY <3>1, <3>2 DEF IsScan
  <2>3. CASE ~(k > Len(t)) /\ MatchEnd(t, k) = 0
    <3>1. f[k] = f[k + 1]
        BY <2>1, <2>3 DEF ScanStep
    <3>2. k + 1 \in k + 1 .. n
        BY <1>2, <2>3
    <3>3. IsScan(t, k + 1, Len(t), f[k + 1])
        BY <1>3, <3>2
    <3>4. k .. Len(t) = {k} \cup (k + 1 .. Len(t))
        BY <1>2, <2>3
    <3> QED BY <2>3, <3>1, <3>3, <3>4 DEF IsScan
  <2>4. CASE ~(k > Len(t)) /\ MatchEnd(t, k) # 0
    <3>1. f[k] = {[first |-> k, last |-> MatchEnd(t, k)]} \cup f[MatchEnd(t, k) + 1]
        BY <2>1, <2>4 DEF ScanStep
    <3>2. k \in 1 .. Len(t)
        BY <1>2, <2>4
    <3>3. MatchEnd(t, k) \in k + 1 .. k + 4 /\ MatchEnd(t, k) <= Len(t)
        BY <2>4, <3>2, MatchRange
    <3>4. MatchEnd(t, k) + 1 \in k + 1 .. n
        BY <1>2, <3>2, <3>3
    <3>5. IsScan(t, MatchEnd(t, k) + 1, Len(t), f[MatchEnd(t, k) + 1])
        BY <1>3, <3>4
    <3> QED BY <2>4, <3>1, <3>2, <3>5, ScanAdds
  <2> QED BY <2>2, <2>3, <2>4
<1>4. \A k \in 1 .. n : (\A j \in k + 1 .. n : j \in G) => k \in G
    BY <1>3
<1>5. \A k \in 1 .. n : k \in G
  <2> HIDE DEF n, G
  <2> QED BY <1>2, <1>4, Downward
<1> QED BY <1>1, <1>5

(* A scan up to b of a longer one.                                         *)
LEMMA ScanUpTo ==
    ASSUME NEW t, NEW a \in Nat, NEW c \in Nat, NEW b \in Nat, b <= c,
           NEW M, IsScan(t, a, c, M)
    PROVE  IsScan(t, a, b, {m \in M : m.first <= b})
<1>1. \A m \in M : m.first \in a .. c
    BY DEF IsScan
<1>2. \A m \in M : m.first <= b => m.first \in a .. b
    BY <1>1
<1>3. \A i \in a .. b : i \in a .. c
    OBVIOUS
<1>4. \A i \in a .. b : MatchEnd(t, i) # 0 =>
          \E m \in M : m.first <= i /\ i <= m.last /\ m.first <= b
  <2> SUFFICES ASSUME NEW i \in a .. b, MatchEnd(t, i) # 0
               PROVE  \E m \in M : m.first <= i /\ i <= m.last /\ m.first <= b
      OBVIOUS
  <2>1. PICK m \in M : m.first <= i /\ i <= m.last
      BY <1>3 DEF IsScan
  <2>2. m.first \in a .. c /\ m.first <= i /\ i <= b
      BY <1>1, <2>1
  <2>3. m.first <= b
      BY <2>2
  <2> QED BY <2>1, <2>3
<1> QED BY <1>2, <1>4 DEF IsScan

(* The rest of a scan, from where no match of it lies across.              *)
LEMMA ScanFrom ==
    ASSUME NEW t, NEW a \in Nat, NEW b \in Nat, NEW c \in Nat, a <= b,
           NEW M, IsScan(t, a, c, M), \A m \in M : m.first < b => m.last < b
    PROVE  IsScan(t, b, c, {m \in M : m.first >= b})
<1>1. \A m \in M : m.first \in a .. c
    BY DEF IsScan
<1>2. \A m \in M : m.first >= b => m.first \in b .. c
    BY <1>1
<1>3. \A i \in b .. c : i \in a .. c
    OBVIOUS
<1>4. \A i \in b .. c : MatchEnd(t, i) # 0 =>
          \E m \in M : m.first <= i /\ i <= m.last /\ m.first >= b
  <2> SUFFICES ASSUME NEW i \in b .. c, MatchEnd(t, i) # 0
               PROVE  \E m \in M : m.first <= i /\ i <= m.last /\ m.first >= b
      OBVIOUS
  <2>1. PICK m \in M : m.first <= i /\ i <= m.last
      BY <1>3 DEF IsScan
  <2> SUFFICES ASSUME m.first < b PROVE FALSE
      BY <1>1, <2>1
  <2>2. m.last < b
      OBVIOUS
  <2>3. m.last = MatchEnd(t, m.first) /\ MatchEnd(t, m.first) \in Nat
      BY DEF IsScan
  <2>4. m.last \in Nat /\ b <= i /\ i \in Nat
      BY <2>3
  <2> QED BY <2>1, <2>2, <2>4
<1> QED BY <1>2, <1>4 DEF IsScan

Starts(M, k) == \E m \in M : m.first = k
Covers(M, k) == \E m \in M : k \in m.first .. m.last
EndingBy(M, s) == {m \in M : m.last <= s}

LEMMA ScanFacts ==
    ASSUME NEW t, NEW a \in Nat, NEW b \in Nat, NEW M, IsScan(t, a, b, M)
    PROVE  /\ \A m \in M : /\ m.first \in Nat /\ m.first \in a .. b /\ m.last \in Nat
                           /\ m.last = MatchEnd(t, m.first)
           /\ \A m, o \in M : m.first = o.first => m = o
BY DEF IsScan

(* The texts have the same matches from a to b, d apart.                   *)
SameEnds(t, w, d, a, b) ==
    \A i \in a .. b : MatchEnd(t, i + d) = IF MatchEnd(w, i) = 0 THEN 0 ELSE MatchEnd(w, i) + d

(* Then a scan of the one finds what a scan of the other finds.            *)
LEMMA ScanSame ==
    ASSUME NEW t, NEW w, NEW d \in Nat, NEW a \in Nat, NEW b \in Nat, SameEnds(t, w, d, a, b),
           NEW M, IsScan(w, a, b, M), NEW N, IsScan(t, a + d, b + d, N)
    PROVE  \A i \in a .. b : Starts(M, i) <=> Starts(N, i + d)
<1> SUFFICES ASSUME ~\A i \in a .. b : Starts(M, i) <=> Starts(N, i + d) PROVE FALSE
    OBVIOUS
<1> DEFINE B == {i \in a .. b : ~(Starts(M, i) <=> Starts(N, i + d))}
<1>1. B \subseteq Nat /\ B # {}
    OBVIOUS
<1>2. PICK i \in B : \A j \in B : i <= j
  <2> HIDE DEF B
  <2> QED BY <1>1, Least
<1>3. i \in Nat /\ i \in a .. b /\ \A j \in a .. i - 1 : Starts(M, j) <=> Starts(N, j + d)
    BY <1>2
<1>4. /\ \A m \in M : /\ m.first \in Nat /\ m.first \in a .. b /\ m.last \in Nat
                      /\ m.last = MatchEnd(w, m.first)
      /\ \A m \in N : /\ m.first \in Nat /\ m.first \in a + d .. b + d /\ m.last \in Nat
                      /\ m.last = MatchEnd(t, m.first)
    BY ScanFacts
<1>5. /\ \A m \in M : MatchEnd(w, m.first) # 0 /\ m.last # 0
      /\ \A m \in N : MatchEnd(t, m.first) # 0 /\ m.last # 0
    BY <1>4 DEF IsScan
<1>6. CASE Starts(M, i) /\ ~Starts(N, i + d)
  <2>1. PICK m \in M : m.first = i
      BY <1>6 DEF Starts
  <2>2. MatchEnd(t, i + d) # 0
      BY <1>3, <1>4, <1>5, <2>1 DEF SameEnds
  <2>3. i + d \in a + d .. b + d
      BY <1>3
  <2>4. PICK o \in N : o.first <= i + d /\ i + d <= o.last
      BY <2>2, <2>3 DEF IsScan
  <2>5. o.first # i + d
      BY <1>6 DEF Starts
  <2>6. PICK j \in Nat : o.first = j + d
    <3>1. o.first \in a + d .. b + d
        BY <1>4
    <3>2. o.first - d \in Nat /\ o.first = (o.first - d) + d
        BY <3>1
    <3> QED BY <3>2
  <2>7. j \in a .. i - 1 /\ j \in a .. b
      BY <1>3, <1>4, <2>4, <2>5, <2>6
  <2>8. PICK q \in M : q.first = j
    <3>1. Starts(N, j + d)
        BY <2>6 DEF Starts
    <3> QED BY <1>3, <2>7, <3>1 DEF Starts
  <2>9. o.last = q.last + d
      BY <1>4, <1>5, <2>6, <2>7, <2>8 DEF SameEnds
  <2>10. q.last < i
    <3>1. q.first < m.first
        BY <1>3, <2>1, <2>7, <2>8
    <3> QED BY <2>1, <3>1 DEF IsScan
  <2> QED BY <1>3, <1>4, <2>4, <2>9, <2>10
<1>7. CASE ~Starts(M, i) /\ Starts(N, i + d)
  <2>1. PICK m \in N : m.first = i + d
      BY <1>7 DEF Starts
  <2>2. MatchEnd(w, i) # 0
      BY <1>3, <1>5, <2>1 DEF SameEnds
  <2>4. PICK o \in M : o.first <= i /\ i <= o.last
      BY <1>3, <2>2 DEF IsScan
  <2>5. o.first # i
      BY <1>7 DEF Starts
  <2>6. PICK j \in Nat : o.first = j
      BY <1>4
  <2>7. j \in a .. i - 1 /\ j \in a .. b
      BY <1>3, <1>4, <2>4, <2>5, <2>6
  <2>8. PICK q \in N : q.first = j + d
    <3>1. Starts(M, j)
        BY <2>6 DEF Starts
    <3> QED BY <1>3, <2>7, <3>1 DEF Starts
  <2>9. q.last = o.last + d
      BY <1>4, <1>5, <2>6, <2>7, <2>8 DEF SameEnds
  <2>10. q.last < i + d
    <3>1. q.first < m.first
        BY <1>3, <2>1, <2>7, <2>8
    <3> QED BY <2>1, <3>1 DEF IsScan
  <2> QED BY <1>3, <1>4, <2>4, <2>9, <2>10
<1> QED BY <1>2, <1>6, <1>7

(* And what ends by s replaces the same pieces.                            *)
LEMMA PieceSame ==
    ASSUME NEW t, NEW w, NEW d \in Nat, NEW a \in Nat, NEW b \in Nat, SameEnds(t, w, d, a, b),
           NEW M, IsScan(w, a, b, M), NEW N, IsScan(t, a + d, b + d, N),
           NEW s \in Nat, NEW k \in a .. b, w[k] = t[k + d]
    PROVE  Piece(w, EndingBy(M, s), k) = Piece(t, EndingBy(N, s + d), k + d)
<1>1. \A i \in a .. b : Starts(M, i) <=> Starts(N, i + d)
    BY ScanSame
<1>2. /\ \A m \in M : /\ m.first \in Nat /\ m.first \in a .. b /\ m.last \in Nat
                      /\ m.last = MatchEnd(w, m.first)
      /\ \A m \in N : /\ m.first \in Nat /\ m.first \in a + d .. b + d /\ m.last \in Nat
                      /\ m.last = MatchEnd(t, m.first)
    BY ScanFacts
<1>3. \A m \in M : m.last # 0
    BY DEF IsScan
<1>4. ASSUME NEW m \in M PROVE \E o \in N : o.first = m.first + d /\ o.last = m.last + d
  <2>1. PICK i \in a .. b : m.first = i
      BY <1>2
  <2>2. PICK o \in N : o.first = i + d
      BY <1>1, <2>1 DEF Starts
  <2> QED BY <1>2, <1>3, <2>1, <2>2 DEF SameEnds
<1>5. ASSUME NEW o \in N PROVE \E m \in M : o.first = m.first + d /\ o.last = m.last + d
  <2>1. PICK i \in Nat : o.first = i + d
    <3>1. o.first - d \in Nat /\ o.first = (o.first - d) + d
        BY <1>2
    <3> QED BY <3>1
  <2>2. i \in a .. b
      BY <1>2, <2>1
  <2>3. PICK m \in M : m.first = i
      BY <1>1, <2>1, <2>2 DEF Starts
  <2> QED BY <1>2, <1>3, <2>1, <2>2, <2>3 DEF SameEnds
<1>6. Starts(EndingBy(M, s), k) <=> Starts(EndingBy(N, s + d), k + d)
  <2>1. ASSUME NEW m \in M, m.last <= s, m.first = k PROVE Starts(EndingBy(N, s + d), k + d)
      BY <1>2, <1>4, <2>1 DEF Starts, EndingBy
  <2>2. ASSUME NEW o \in N, o.last <= s + d, o.first = k + d PROVE Starts(EndingBy(M, s), k)
    <3>1. PICK m \in M : o.first = m.first + d /\ o.last = m.last + d
        BY <1>5
    <3>2. m.first = k /\ m.last <= s
        BY <1>2, <2>2, <3>1
    <3> QED BY <3>2 DEF Starts, EndingBy
  <2> QED BY <2>1, <2>2 DEF Starts, EndingBy
<1>7. Covers(EndingBy(M, s), k) <=> Covers(EndingBy(N, s + d), k + d)
  <2>1. ASSUME NEW m \in M, m.last <= s, k \in m.first .. m.last
        PROVE  Covers(EndingBy(N, s + d), k + d)
    <3>1. PICK o \in N : o.first = m.first + d /\ o.last = m.last + d
        BY <1>4
    <3>2. o.last <= s + d /\ k + d \in o.first .. o.last
        BY <1>2, <2>1, <3>1
    <3> QED BY <3>2 DEF Covers, EndingBy
  <2>2. ASSUME NEW o \in N, o.last <= s + d, k + d \in o.first .. o.last
        PROVE  Covers(EndingBy(M, s), k)
    <3>1. PICK m \in M : o.first = m.first + d /\ o.last = m.last + d
        BY <1>5
    <3>2. k \in m.first .. m.last /\ m.last <= s
        BY <1>2, <2>2, <3>1
    <3> QED BY <3>2 DEF Covers, EndingBy
  <2> QED BY <2>1, <2>2 DEF Covers, EndingBy
<1>8. \A x, I, n : Piece(x, I, n) = IF Starts(I, n) THEN <<Placeholder>>
                                    ELSE IF Covers(I, n) THEN <<>> ELSE <<x[n]>>
    BY DEF Piece, Starts, Covers
<1> QED BY <1>6, <1>7, <1>8

----------------------------------------------------------------------------
(* OUTPUT.  What redact_range lets go, piece by piece.                     *)
Shown == Alphabet \cup {Placeholder}

(* Concatenation, by three of its laws.                                    *)
Cat(x, y) == x \o y

LEMMA CatType == \A S : \A x, y \in Seq(S) : Cat(x, y) \in Seq(S)
BY DEF Cat

LEMMA CatEmpty ==
    \A S : <<>> \in Seq(S) /\ \A x \in Seq(S) : Cat(x, <<>>) = x /\ Cat(<<>>, x) = x
BY ConcatEmptySeq DEF Cat

LEMMA CatAssociative ==
    \A S : \A x, y, z \in Seq(S) : Cat(Cat(x, y), z) = Cat(x, Cat(y, z))
BY DEF Cat

OutStep(f, t, I, a, k) == IF k = a THEN <<>> ELSE Cat(f[k - 1], Piece(t, I, k))

LEMMA OutExists ==
    ASSUME NEW t, NEW I, NEW a \in Nat, NEW b \in Nat, a <= b
    PROVE  \E f : f = [k \in a .. b |-> OutStep(f, t, I, a, k)]
<1> DEFINE G == {n \in a .. b : \E f : f = [k \in a .. n |-> OutStep(f, t, I, a, k)]}
<1>1. a \in G
  <2> DEFINE f == [k \in a .. a |-> <<>>]
  <2>1. \A k \in a .. a : k = a
      OBVIOUS
  <2>2. f = [k \in a .. a |-> OutStep(f, t, I, a, k)]
      BY <2>1 DEF OutStep
  <2> HIDE DEF f
  <2> QED BY <2>2
<1>2. ASSUME NEW n \in a + 1 .. b, n - 1 \in G
      PROVE  n \in G
  <2>1. PICK g : g = [k \in a .. n - 1 |-> OutStep(g, t, I, a, k)]
      BY <1>2
  <2> DEFINE h == [k \in a .. n |-> IF k = n THEN OutStep(g, t, I, a, n) ELSE g[k]]
  <2>2. \A k \in a .. n : h[k] = IF k = n THEN OutStep(g, t, I, a, n) ELSE g[k]
      OBVIOUS
  <2>3. h = [k \in a .. n |-> h[k]]
      OBVIOUS
  <2> HIDE DEF h
  <2>4. ASSUME NEW k \in a .. n PROVE h[k] = OutStep(h, t, I, a, k)
    <3>1. OutStep(h, t, I, a, k) = OutStep(g, t, I, a, k)
      <4>1. CASE k = a
          BY <4>1 DEF OutStep
      <4>2. CASE k # a
        <5>1. k - 1 \in a .. n /\ k - 1 # n
            BY <4>2
        <5> QED BY <2>2, <4>2, <5>1 DEF OutStep
      <4> QED BY <4>1, <4>2
    <3>2. CASE k = n
        BY <2>2, <3>1, <3>2
    <3>3. CASE k # n
      <4>1. k \in a .. n - 1
          BY <3>3
      <4>2. g[k] = OutStep(g, t, I, a, k)
          BY <2>1, <4>1
      <4> QED BY <2>2, <3>1, <3>3, <4>2
    <3> QED BY <3>2, <3>3
  <2>5. h = [k \in a .. n |-> OutStep(h, t, I, a, k)]
      BY <2>3, <2>4
  <2> QED BY <2>5
<1>3. \A n \in a .. b : n \in G
  <2> HIDE DEF G
  <2> QED BY <1>1, <1>2, Upward
<1>4. b \in G
    BY <1>3
<1> QED BY <1>4

IsOut(f, t, I, a, b) ==
    /\ f[a] = <<>>
    /\ \A k \in a + 1 .. b : f[k] = Cat(f[k - 1], Piece(t, I, k))

LEMMA OutUnfolds ==
    ASSUME NEW t, NEW a \in Nat, NEW b \in Nat, a <= b, NEW M
    PROVE  \E f : IsOut(f, t, EndingBy(M, b), a, b) /\ RedactRange(t, a, b, M) = f[b]
<1> DEFINE I == EndingBy(M, b)
           f == CHOOSE f : f = [k \in a .. b |-> OutStep(f, t, I, a, k)]
<1>1. f = [k \in a .. b |-> OutStep(f, t, I, a, k)]
  <2> HIDE DEF I
  <2> QED BY OutExists
<1>2. RedactRange(t, a, b, M) = f[b]
    BY DEF RedactRange, OutStep, EndingBy, Cat
<1> HIDE DEF f, I
<1>3. \A k \in a .. b : f[k] = OutStep(f, t, I, a, k)
    BY <1>1
<1>4. f[a] = <<>>
  <2>1. a \in a .. b
      OBVIOUS
  <2> QED BY <1>3, <2>1 DEF OutStep
<1>5. ASSUME NEW k \in a + 1 .. b PROVE f[k] = Cat(f[k - 1], Piece(t, I, k))
  <2>1. k \in a .. b /\ k # a
      OBVIOUS
  <2> QED BY <1>3, <2>1 DEF OutStep
<1>6. IsOut(f, t, I, a, b)
    BY <1>4, <1>5 DEF IsOut
<1> QED BY <1>2, <1>6 DEF I

LEMMA PieceType ==
    ASSUME NEW t \in Seq(Alphabet), NEW I, NEW k \in 1 .. Len(t)
    PROVE  Piece(t, I, k) \in Seq(Shown)
<1>1. t[k] \in Shown /\ Placeholder \in Shown
    BY DEF Shown
<1> DEFINE x == t[k]
<1> HIDE DEF x
<1>2. <<x>> \in Seq(Shown) /\ <<Placeholder>> \in Seq(Shown) /\ <<>> \in Seq(Shown)
    BY <1>1 DEF x
<1> QED BY <1>2 DEF Piece, x

(* f goes on from x as h does from nothing, by the pieces q.               *)
Alongside(f, h, q, x, S, a, b, d) ==
    /\ x \in Seq(S) /\ a \in Nat /\ b \in Nat /\ d \in Nat /\ a <= b
    /\ f[a + d] = x /\ h[a] = <<>>
    /\ \A k \in a + 1 .. b : /\ q[k] \in Seq(S) /\ h[k] = Cat(h[k - 1], q[k])
                             /\ f[k + d] = Cat(f[(k + d) - 1], q[k])

LEMMA GoesOn ==
    ASSUME NEW S, NEW f, NEW h, NEW q, NEW x, NEW a, NEW b, NEW d,
           Alongside(f, h, q, x, S, a, b, d)
    PROVE  h[b] \in Seq(S) /\ f[b + d] = Cat(x, h[b])
<1> x \in Seq(S) /\ a \in Nat /\ b \in Nat /\ d \in Nat /\ a <= b /\ f[a + d] = x /\ h[a] = <<>>
    BY DEF Alongside
<1> DEFINE G == {k \in a .. b : h[k] \in Seq(S) /\ f[k + d] = Cat(x, h[k])}
<1>1. a \in G
  <2>1. Cat(x, <<>>) = x /\ <<>> \in Seq(S)
      BY CatEmpty
  <2>2. a \in a .. b
      OBVIOUS
  <2> QED BY <2>1, <2>2
<1>2. ASSUME NEW k \in a + 1 .. b, k - 1 \in G PROVE k \in G
  <2>1. (k + d) - 1 = (k - 1) + d /\ k \in a .. b
      OBVIOUS
  <2>2. h[k - 1] \in Seq(S) /\ f[(k - 1) + d] = Cat(x, h[k - 1])
      BY <1>2
  <2>3. q[k] \in Seq(S) /\ h[k] = Cat(h[k - 1], q[k]) /\ f[k + d] = Cat(f[(k - 1) + d], q[k])
      BY <2>1 DEF Alongside
  <2>4. h[k] \in Seq(S)
      BY <2>2, <2>3, CatType
  <2>5. Cat(Cat(x, h[k - 1]), q[k]) = Cat(x, Cat(h[k - 1], q[k]))
      BY <2>2, <2>3, CatAssociative
  <2>6. f[k + d] = Cat(x, h[k])
      BY <2>2, <2>3, <2>5
  <2> QED BY <2>1, <2>4, <2>6
<1>3. \A k \in a .. b : k \in G
  <2> HIDE DEF G
  <2> QED BY <1>1, <1>2, Upward
<1>4. b \in a .. b
    OBVIOUS
<1> QED BY <1>3, <1>4

(* From lo to hi, t and the T that it is d characters further on in have   *)
(* the same pieces.                                                        *)
SamePieces(T, I, t, J, lo, hi, d) ==
    \A k \in lo .. hi : Piece(T, I, k + d) = Piece(t, J, k)

(* f, the output of T, contains h, the output of t from a to b.            *)
OutWithin(T, I, f, e, t, J, h, a, b, d) ==
    /\ T \in Seq(Alphabet) /\ e \in Nat /\ IsOut(f, T, I, 0, e) /\ e <= Len(T)
    /\ a \in Nat /\ b \in Nat /\ d \in Nat /\ a <= b /\ b + d <= e
    /\ IsOut(h, t, J, a, b) /\ SamePieces(T, I, t, J, a + 1, b, d) /\ f[a + d] \in Seq(Shown)

LEMMA OutGoesOn ==
    ASSUME NEW T, NEW I, NEW f, NEW e, NEW t, NEW J, NEW h, NEW a, NEW b, NEW d,
           OutWithin(T, I, f, e, t, J, h, a, b, d)
    PROVE  h[b] \in Seq(Shown) /\ f[b + d] = Cat(f[a + d], h[b])
<1> USE DEF OutWithin
<1> DEFINE q == [k \in a + 1 .. b |-> Piece(t, J, k)]
<1>1. \A k \in a + 1 .. b : q[k] = Piece(t, J, k)
    OBVIOUS
<1> HIDE DEF q
<1>2. ASSUME NEW k \in a + 1 .. b
      PROVE  /\ q[k] \in Seq(Shown) /\ h[k] = Cat(h[k - 1], q[k])
             /\ f[k + d] = Cat(f[(k + d) - 1], q[k])
  <2>1. k + d \in 1 .. Len(T) /\ k + d \in 0 + 1 .. e
      OBVIOUS
  <2>2. q[k] = Piece(t, J, k) /\ q[k] = Piece(T, I, k + d)
      BY <1>1 DEF SamePieces
  <2>3. Piece(T, I, k + d) \in Seq(Shown)
      BY <2>1, PieceType
  <2>4. h[k] = Cat(h[k - 1], Piece(t, J, k))
      BY DEF IsOut
  <2>5. f[k + d] = Cat(f[(k + d) - 1], Piece(T, I, k + d))
      BY <2>1 DEF IsOut
  <2> QED BY <2>2, <2>3, <2>4, <2>5
<1>3. \A k \in a + 1 .. b : /\ q[k] \in Seq(Shown) /\ h[k] = Cat(h[k - 1], q[k])
                            /\ f[k + d] = Cat(f[(k + d) - 1], q[k])
    BY <1>2
<1>4. h[a] = <<>>
    BY DEF IsOut
<1>5. Alongside(f, h, q, f[a + d], Shown, a, b, d)
    BY <1>3, <1>4 DEF Alongside
<1> QED BY <1>5, GoesOn

(* The output of T is that of t up to p and then that of w, whose text is d*)
(* characters further on, if their pieces are the same.                    *)
Joins(T, M, e, t, M1, p, w, M2, a, s, d) ==
    /\ T \in Seq(Alphabet) /\ p \in Nat /\ e \in Nat /\ a \in Nat /\ s \in Nat /\ d \in Nat
    /\ p = a + d /\ e = s + d /\ a <= s /\ e <= Len(T)
    /\ SamePieces(T, EndingBy(M, e), t, EndingBy(M1, p), 1, p, 0)
    /\ SamePieces(T, EndingBy(M, e), w, EndingBy(M2, s), a + 1, s, d)

LEMMA OutJoins ==
    ASSUME NEW T, NEW M, NEW e, NEW t, NEW M1, NEW p, NEW w, NEW M2, NEW a, NEW s, NEW d,
           Joins(T, M, e, t, M1, p, w, M2, a, s, d)
    PROVE  /\ RedactRange(t, 0, p, M1) \in Seq(Shown)
           /\ RedactRange(w, a, s, M2) \in Seq(Shown)
           /\ RedactRange(T, 0, e, M) = Cat(RedactRange(t, 0, p, M1), RedactRange(w, a, s, M2))
<1> DEFINE I == EndingBy(M, e)
           J == EndingBy(M1, p)
           K == EndingBy(M2, s)
<1>1. SamePieces(T, I, t, J, 1, p, 0) /\ SamePieces(T, I, w, K, a + 1, s, d)
    BY DEF Joins
<1>2. /\ T \in Seq(Alphabet) /\ p \in Nat /\ e \in Nat /\ a \in Nat /\ s \in Nat /\ d \in Nat
      /\ p = a + d /\ e = s + d /\ a <= s /\ e <= Len(T)
      /\ 0 \in Nat /\ 0 <= p /\ 0 <= e /\ p <= e /\ s + d <= e /\ p + 0 = p /\ 0 + 1 = 1
    BY DEF Joins
<1>3. PICK f : IsOut(f, T, I, 0, e) /\ RedactRange(T, 0, e, M) = f[e]
    BY <1>2, OutUnfolds
<1>4. PICK g : IsOut(g, t, J, 0, p) /\ RedactRange(t, 0, p, M1) = g[p]
    BY <1>2, OutUnfolds
<1>5. PICK h : IsOut(h, w, K, a, s) /\ RedactRange(w, a, s, M2) = h[s]
    BY <1>2, OutUnfolds
<1> HIDE DEF I, J, K
<1>6. f[0] = <<>> /\ f[0] \in Seq(Shown) /\ 0 + 0 = 0
    BY <1>3 DEF IsOut
<1>7. g[p] \in Seq(Shown) /\ f[p] = g[p]
  <2>1. SamePieces(T, I, t, J, 0 + 1, p, 0) /\ f[0 + 0] \in Seq(Shown) /\ p + 0 <= e
      BY <1>1, <1>2, <1>6
  <2>2. OutWithin(T, I, f, e, t, J, g, 0, p, 0)
      BY <1>2, <1>3, <1>4, <2>1 DEF OutWithin
  <2>3. g[p] \in Seq(Shown) /\ f[p + 0] = Cat(f[0 + 0], g[p])
      BY <2>2, OutGoesOn
  <2>4. Cat(<<>>, g[p]) = g[p]
      BY <2>3, CatEmpty
  <2> QED BY <1>2, <1>6, <2>3, <2>4
<1>8. h[s] \in Seq(Shown) /\ f[e] = Cat(g[p], h[s])
  <2>1. f[a + d] \in Seq(Shown)
      BY <1>2, <1>7
  <2>2. OutWithin(T, I, f, e, w, K, h, a, s, d)
      BY <1>1, <1>2, <1>3, <1>5, <2>1 DEF OutWithin
  <2>3. h[s] \in Seq(Shown) /\ f[s + d] = Cat(f[a + d], h[s])
      BY <2>2, OutGoesOn
  <2> QED BY <1>2, <1>7, <2>3
<1> QED BY <1>3, <1>4, <1>5, <1>7, <1>8

----------------------------------------------------------------------------
(* THE SPLIT.                                                              *)

(* Every open position is held back.                                       *)
LEMMA HoldbackFacts ==
    ASSUME NEW b \in Seq(Alphabet)
    PROVE  /\ Holdback(b) \in Nat /\ Holdback(b) <= Len(b) /\ Holdback(b) <= MaxHoldback
           /\ \A i \in 1 .. Len(b) : Open(b, i) => Len(b) - i < Holdback(b)
<1> DEFINE n == Len(b)
           H == {0} \cup {h \in 1 .. Min({MaxHoldback, n}) : Run(b, n - h + 1, n)}
<1>1. n \in Nat /\ MaxHoldback \in Nat /\ MaxHoldback > 0
    BY BoundsAssumption DEF MaxMatch
<1>2. Holdback(b) = Max(H)
    BY DEF Holdback, LongestTail, Run
<1>3. /\ Min({MaxHoldback, n}) \in Nat /\ Min({MaxHoldback, n}) <= n
      /\ Min({MaxHoldback, n}) <= MaxHoldback
      /\ Min({MaxHoldback, n}) = n \/ Min({MaxHoldback, n}) = MaxHoldback
  <2> DEFINE S == {MaxHoldback, n}
  <2>1. S \subseteq Nat /\ S # {} /\ \A x \in S : x = MaxHoldback \/ x = n
      BY <1>1
  <2>2. MaxHoldback \in S /\ n \in S
      OBVIOUS
  <2> HIDE DEF n, S
  <2>3. Min(S) \in S /\ \A x \in S : Min(S) <= x
      BY <2>1, Smallest
  <2>4. (Min(S) = n \/ Min(S) = MaxHoldback) /\ Min(S) <= n /\ Min(S) <= MaxHoldback
      BY <2>1, <2>2, <2>3
  <2> QED BY <1>1, <2>4 DEF S
<1>4. H \subseteq Nat /\ 0 \in H /\ \A h \in H : h <= n /\ h <= MaxHoldback
  <2>1. PICK c \in Nat : c = Min({MaxHoldback, n})
      BY <1>3
  <2>2. c <= n /\ c <= MaxHoldback
      BY <1>3, <2>1
  <2> HIDE DEF n
  <2>3. \A h \in 1 .. c : h \in Nat /\ h <= n /\ h <= MaxHoldback
      BY <1>1, <2>2
  <2>4. 0 <= n /\ 0 <= MaxHoldback
      BY <1>1
  <2>5. 0 \in H /\ \A h \in H : h = 0 \/ h \in 1 .. c
      BY <2>1
  <2> HIDE DEF H
  <2>6. \A h \in H : h \in Nat /\ h <= n /\ h <= MaxHoldback
      BY <2>3, <2>4, <2>5
  <2> QED BY <2>5, <2>6
<1>5. Max(H) \in H /\ \A h \in H : h <= Max(H)
  <2> HIDE DEF n, H
  <2> QED BY <1>1, <1>4, Greatest
<1>6. ASSUME NEW i \in 1 .. n, Open(b, i) PROVE n - i < Max(H)
  <2>1. n - i < MaxHoldback /\ Run(b, i, n)
      BY <1>6 DEF Open
  <2> HIDE DEF n
  <2>2. n - i + 1 \in 1 .. Min({MaxHoldback, n})
      BY <1>1, <1>3, <2>1
  <2>3. PICK h \in 1 .. Min({MaxHoldback, n}) : h = n - i + 1
      BY <2>2
  <2>4. n - h + 1 = i
      BY <1>1, <2>3
  <2>5. h \in H
      BY <2>1, <2>4
  <2>6. h <= Max(H) /\ Max(H) \in Nat
      BY <1>4, <1>5, <2>5
  <2> QED BY <1>1, <2>3, <2>6
<1>7. Max(H) \in Nat /\ Max(H) <= n /\ Max(H) <= MaxHoldback
  <2> HIDE DEF H, n
  <2> QED BY <1>4, <1>5
<1> QED BY <1>2, <1>6, <1>7

(* The matches of t behind its first a characters.                         *)
ScannedFrom(t, a, n, W) == a \in Nat /\ n \in Nat /\ IsScan(t, a + 1, n, W)

(* After the pull-back no match lies across the split; what is held on top *)
(* of the tail is the one that did.                                        *)
LEMMA PullBackFacts ==
    ASSUME NEW t, NEW a, NEW n, NEW W, ScannedFrom(t, a, n, W), NEW split \in a .. n
    PROVE  /\ PullBack(split, a, W) \in a .. split
           /\ \A m \in W : m.first <= PullBack(split, a, W) => m.last <= PullBack(split, a, W)
           /\ PullBack(split, a, W) = split \/
                  \E m \in W : m.first = PullBack(split, a, W) + 1 /\ split < m.last
<1> DEFINE X == {m \in W : m.first <= split /\ split < m.last}
           F == {m.first : m \in X}
<1>0. a \in Nat /\ n \in Nat /\ IsScan(t, a + 1, n, W)
    BY DEF ScannedFrom
<1>1. \A m \in W : m.first \in Nat /\ m.first \in a + 1 .. n /\ m.last \in Nat
    BY <1>0, ScanFacts
<1>2. PullBack(split, a, W) = IF X = {} THEN split ELSE Max({a, Min(F) - 1})
    BY DEF PullBack
<1>3. CASE X = {}
  <2>1. PullBack(split, a, W) = split
      BY <1>2, <1>3
  <2>2. \A m \in W : m.first <= split => m.last <= split
      BY <1>1, <1>3
  <2> QED BY <2>1, <2>2
<1>4. CASE X # {}
  <2>1. F \subseteq Nat /\ F # {}
      BY <1>1, <1>4
  <2>2. Min(F) \in F /\ \A x \in F : Min(F) <= x
    <3> HIDE DEF F
    <3> QED BY <2>1, Smallest
  <2>3. PICK m \in X : m.first = Min(F)
      BY <2>2
  <2>4. m \in W /\ m.first <= split /\ split < m.last /\ m.first \in a + 1 .. n /\ m.last \in Nat
      BY <1>1, <2>3
  <2>5. PICK s \in Nat : s + 1 = m.first
    <3>1. m.first - 1 \in Nat /\ (m.first - 1) + 1 = m.first
        BY <1>0, <2>4
    <3> QED BY <3>1
  <2>6. a <= s /\ s <= split /\ Min(F) - 1 = s
      BY <1>0, <2>3, <2>4, <2>5
  <2>7. Max({a, s}) = s
    <3> DEFINE S == {a, s}
    <3>1. S \subseteq Nat /\ S # {} /\ a \in S /\ s \in S /\ \A x \in S : x <= s
        BY <1>0, <2>6
    <3>2. Max(S) \in S /\ \A x \in S : x <= Max(S)
      <4> HIDE DEF S
      <4> QED BY <3>1, Greatest
    <3> QED BY <2>6, <3>1, <3>2
  <2>8. PullBack(split, a, W) = s
    <3> HIDE DEF F, X
    <3> QED BY <1>2, <1>4, <2>6, <2>7
  <2>9. ASSUME NEW o \in W, o.first <= s PROVE o.last <= s
    <3>1. o.first < m.first
        BY <1>1, <2>4, <2>5, <2>9
    <3>2. o.last < m.first
        BY <1>0, <2>4, <3>1 DEF IsScan
    <3> QED BY <1>1, <2>5, <3>2
  <2> QED BY <2>4, <2>5, <2>6, <2>8, <2>9
<1> QED BY <1>3, <1>4

----------------------------------------------------------------------------
(* THE REDACTOR.  What it holds of the text it was fed: all after the first*)
(* p characters, and a character before it if there is one.                *)

Whole(r) == r.context \o r.buffer

Kept(t, r, p) ==
    /\ r.buffer \in Seq(Alphabet) /\ r.context \in Seq(Alphabet) /\ p \in Nat
    /\ Len(r.context) <= p /\ (Len(r.context) = p \/ Len(r.context) >= 1)
    /\ EndsWith(t, Whole(r), p - Len(r.context))

LEMMA WholeFacts ==
    ASSUME NEW c \in Seq(Alphabet), NEW b \in Seq(Alphabet)
    PROVE  /\ c \o b \in Seq(Alphabet) /\ Len(c \o b) = Len(c) + Len(b)
           /\ \A k \in 1 .. Len(c) : (c \o b)[k] = c[k]
           /\ \A k \in 1 .. Len(b) : (c \o b)[Len(c) + k] = b[k]
<1>1. c \o b \in Seq(Alphabet) /\ Len(c \o b) = Len(c) + Len(b)
    BY ConcatProperties
<1>2. \A k \in 1 .. Len(c) + Len(b) : (c \o b)[k] = IF k <= Len(c) THEN c[k] ELSE b[k - Len(c)]
    BY ConcatProperties
<1>3. Len(c) \in Nat /\ Len(b) \in Nat
    OBVIOUS
<1>4. \A k \in 1 .. Len(c) : (c \o b)[k] = c[k]
    BY <1>2, <1>3
<1>5. ASSUME NEW k \in 1 .. Len(b) PROVE (c \o b)[Len(c) + k] = b[k]
  <2>1. Len(c) + k \in 1 .. Len(c) + Len(b) /\ ~(Len(c) + k <= Len(c)) /\ (Len(c) + k) - Len(c) = k
      BY <1>3
  <2> QED BY <1>2, <2>1
<1> QED BY <1>1, <1>4, <1>5

LEMMA EndsWithAgain ==
    ASSUME NEW t, NEW w, NEW v, NEW d, NEW e, EndsWith(t, w, d), EndsWith(w, v, e)
    PROVE  EndsWith(t, v, e + d)
<1>1. /\ t \in Seq(Alphabet) /\ w \in Seq(Alphabet) /\ v \in Seq(Alphabet) /\ d \in Nat /\ e \in Nat
      /\ Len(t) = Len(w) + d /\ Len(w) = Len(v) + e
      /\ \A k \in 1 .. Len(w) : w[k] = t[k + d]
      /\ \A k \in 1 .. Len(v) : v[k] = w[k + e]
    BY DEF EndsWith
<1>2. e + d \in Nat /\ Len(t) = Len(v) + (e + d)
    BY <1>1
<1>3. ASSUME NEW k \in 1 .. Len(v) PROVE v[k] = t[k + (e + d)]
  <2>1. k + e \in 1 .. Len(w) /\ (k + e) + d = k + (e + d)
      BY <1>1
  <2>2. w[k + e] = t[(k + e) + d]
      BY <1>1, <2>1
  <2> QED BY <1>1, <2>1, <2>2
<1> QED BY <1>1, <1>2, <1>3 DEF EndsWith

LEMMA EndsWithGrows ==
    ASSUME NEW t, NEW w, NEW d, EndsWith(t, w, d), NEW chunk \in Seq(Alphabet)
    PROVE  EndsWith(t \o chunk, w \o chunk, d) /\ BeginsWith(t \o chunk, t)
<1>1. /\ t \in Seq(Alphabet) /\ w \in Seq(Alphabet) /\ d \in Nat /\ Len(t) = Len(w) + d
      /\ \A k \in 1 .. Len(w) : w[k] = t[k + d]
    BY DEF EndsWith
<1> DEFINE T == t \o chunk
           V == w \o chunk
<1>2. /\ T \in Seq(Alphabet) /\ Len(T) = Len(t) + Len(chunk)
      /\ \A k \in 1 .. Len(t) : T[k] = t[k]
      /\ \A k \in 1 .. Len(chunk) : T[Len(t) + k] = chunk[k]
    BY <1>1, WholeFacts
<1>3. /\ V \in Seq(Alphabet) /\ Len(V) = Len(w) + Len(chunk)
      /\ \A k \in 1 .. Len(w) : V[k] = w[k]
      /\ \A k \in 1 .. Len(chunk) : V[Len(w) + k] = chunk[k]
    BY <1>1, WholeFacts
<1> HIDE DEF T, V
<1>4. Len(w) \in Nat /\ Len(chunk) \in Nat /\ Len(t) \in Nat
    BY <1>1
<1>5. ASSUME NEW k \in 1 .. Len(V) PROVE V[k] = T[k + d]
  <2>1. CASE k <= Len(w)
    <3>1. k \in 1 .. Len(w) /\ k + d \in 1 .. Len(t)
        BY <1>1, <1>4, <2>1
    <3> QED BY <1>1, <1>2, <1>3, <3>1
  <2>2. CASE ~(k <= Len(w))
    <3>1. PICK n \in 1 .. Len(chunk) : k = Len(w) + n
      <4>1. k - Len(w) \in 1 .. Len(chunk) /\ k = Len(w) + (k - Len(w))
          BY <1>3, <1>4, <2>2
      <4> QED BY <4>1
    <3>2. k + d = Len(t) + n
        BY <1>1, <1>4, <3>1
    <3> QED BY <1>2, <1>3, <3>1, <3>2
  <2> QED BY <2>1, <2>2
<1>6. Len(T) = Len(V) + d /\ Len(t) <= Len(T)
    BY <1>1, <1>2, <1>3, <1>4
<1>7. EndsWith(T, V, d)
    BY <1>1, <1>2, <1>3, <1>5, <1>6 DEF EndsWith
<1>8. BeginsWith(T, t)
    BY <1>1, <1>2, <1>6 DEF BeginsWith
<1> QED BY <1>7, <1>8 DEF T, V

(* The text goes on, and so does the buffer.                               *)
LEMMA KeptGrows ==
    ASSUME NEW t, NEW r, NEW p, Kept(t, r, p), NEW chunk \in Seq(Alphabet)
    PROVE  /\ Kept(t \o chunk, [buffer |-> r.buffer \o chunk, context |-> r.context], p)
           /\ BeginsWith(t \o chunk, t)
<1> DEFINE b == r.buffer
           c == r.context
           q == [buffer |-> b \o chunk, context |-> c]
<1>1. b \in Seq(Alphabet) /\ c \in Seq(Alphabet)
    BY DEF Kept
<1>2. EndsWith(t, c \o b, p - Len(c))
    BY DEF Kept, Whole
<1>3. EndsWith(t \o chunk, (c \o b) \o chunk, p - Len(c)) /\ BeginsWith(t \o chunk, t)
    BY <1>2, EndsWithGrows
<1>4. (c \o b) \o chunk = c \o (b \o chunk)
  <2>1. Cat(Cat(c, b), chunk) = Cat(c, Cat(b, chunk))
    <3> HIDE DEF b, c
    <3> QED BY <1>1, CatAssociative
  <2> QED BY <2>1 DEF Cat
<1>5. q.buffer = b \o chunk /\ q.context = c
    OBVIOUS
<1>6. b \o chunk \in Seq(Alphabet)
    BY <1>1, WholeFacts
<1>7. Kept(t, r, p) => p \in Nat /\ Len(c) <= p /\ (Len(c) = p \/ Len(c) >= 1)
    BY DEF Kept
<1> HIDE DEF b, c, q
<1>8. Kept(t \o chunk, q, p)
    BY <1>1, <1>3, <1>4, <1>5, <1>6, <1>7 DEF Kept, Whole
<1> QED BY <1>3, <1>8 DEF q, b, c

LEMMA CutFacts ==
    ASSUME NEW w \in Seq(Alphabet), NEW i \in Nat, NEW j \in Nat, i <= j, j <= Len(w)
    PROVE  /\ SubSeq(w, i + 1, j) \in Seq(Alphabet) /\ Len(SubSeq(w, i + 1, j)) = j - i
           /\ \A k \in 1 .. j - i : SubSeq(w, i + 1, j)[k] = w[k + i]
<1>1. Len(w) \in Nat /\ i + 1 \in 1 .. Len(w) + 1 /\ j \in i .. Len(w)
    OBVIOUS
<1> DEFINE v == SubSeq(w, i + 1, j)
<1>2. v \in Seq(Alphabet)
    BY <1>1, SubSeqProperties
<1>3. Len(v) = IF i + 1 <= j THEN j - (i + 1) + 1 ELSE 0
    BY <1>1, SubSeqProperties
<1>4. Len(v) = j - i
    BY <1>1, <1>3
<1>5. ASSUME NEW k \in 1 .. j - i PROVE v[k] = w[k + i]
  <2>1. i + 1 <= j /\ k \in 1 .. j - (i + 1) + 1 /\ (i + 1) + k - 1 = k + i
      BY <1>1
  <2>2. v[k] = w[(i + 1) + k - 1]
      BY <1>1, <2>1, SubSeqProperties
  <2> QED BY <2>1, <2>2
<1> QED BY <1>2, <1>4, <1>5

(* Where the redactor cuts: all after the cut and the lookbehind before it *)
(* is kept.                                                                *)
Cut(w, s) == [buffer |-> SubSeq(w, s + 1, Len(w)),
              context |-> LastOf(SubSeq(w, 1, s), Lookbehind)]

LEMMA CutParts ==
    ASSUME NEW w \in Seq(Alphabet), NEW s \in 0 .. Len(w)
    PROVE  \E i \in 0 .. s :
              /\ i = 0 \/ s - i >= 1
              /\ Cut(w, s).context = SubSeq(w, i + 1, s) /\ s - i <= Lookbehind
              /\ Cut(w, s).buffer = SubSeq(w, s + 1, Len(w))
<1>1. Lookbehind \in Nat /\ Lookbehind >= 1
    BY BoundsAssumption DEF MaxMatch
<1>2. Len(w) \in Nat /\ s \in Nat /\ s <= Len(w)
    OBVIOUS
<1> DEFINE v == SubSeq(w, 1, s)
<1>3. v \in Seq(Alphabet) /\ Len(v) = s /\ \A k \in 1 .. s : v[k] = w[k]
  <2>1. 0 + 1 = 1 /\ s - 0 = s /\ \A k \in 1 .. s : k + 0 = k
      BY <1>2
  <2> QED BY <1>2, <2>1, CutFacts
<1>4. \A i \in 0 .. s : SubSeq(v, i + 1, s) = SubSeq(w, i + 1, s)
  <2> SUFFICES ASSUME NEW i \in 0 .. s PROVE SubSeq(v, i + 1, s) = SubSeq(w, i + 1, s)
      OBVIOUS
  <2> DEFINE x == SubSeq(v, i + 1, s)
             y == SubSeq(w, i + 1, s)
  <2>1. i \in Nat /\ i <= s
      BY <1>2
  <2>2. x \in Seq(Alphabet) /\ Len(x) = s - i /\ \A k \in 1 .. s - i : x[k] = v[k + i]
    <3> HIDE DEF v
    <3> QED BY <1>2, <1>3, <2>1, CutFacts
  <2>3. y \in Seq(Alphabet) /\ Len(y) = s - i /\ \A k \in 1 .. s - i : y[k] = w[k + i]
      BY <1>2, <2>1, CutFacts
  <2> HIDE DEF x, y, v
  <2>4. \A k \in 1 .. s - i : x[k] = y[k]
    <3> SUFFICES ASSUME NEW k \in 1 .. s - i PROVE x[k] = y[k]
        OBVIOUS
    <3>1. k + i \in 1 .. s
        BY <1>2, <2>1
    <3> QED BY <1>3, <2>2, <2>3, <3>1
  <2>5. x = y
      BY <2>2, <2>3, <2>4, SeqEqual
  <2> QED BY <2>5 DEF x, y
<1>5. Cut(w, s).context = SubSeq(v, IF s > Lookbehind THEN s - Lookbehind + 1 ELSE 1, s)
    BY <1>3 DEF Cut, LastOf
<1>6. Cut(w, s).buffer = SubSeq(w, s + 1, Len(w))
    BY DEF Cut
<1> HIDE DEF v
<1>7. CASE s > Lookbehind
  <2>1. PICK i \in 0 .. s : i = s - Lookbehind
      BY <1>1, <1>2, <1>7
  <2>2. s - i = Lookbehind /\ s - Lookbehind + 1 = i + 1
      BY <1>1, <1>2, <2>1
  <2>3. Cut(w, s).context = SubSeq(w, i + 1, s)
      BY <1>4, <1>5, <1>7, <2>2
  <2>4. s - i <= Lookbehind /\ s - i >= 1
      BY <1>1, <2>2
  <2> QED BY <1>6, <2>3, <2>4
<1>8. CASE ~(s > Lookbehind)
  <2>1. 0 \in 0 .. s /\ 0 + 1 = 1 /\ s - 0 <= Lookbehind
      BY <1>1, <1>2, <1>8
  <2> QED BY <1>4, <1>5, <1>6, <1>8, <2>1
<1> QED BY <1>7, <1>8

LEMMA KeptCut ==
    ASSUME NEW t, NEW w, NEW d, EndsWith(t, w, d), NEW s \in 0 .. Len(w), d = 0 \/ s >= 1
    PROVE  /\ Kept(t, Cut(w, s), s + d)
           /\ Len(Cut(w, s).context) <= Lookbehind
           /\ Len(Cut(w, s).context) <= s
           /\ Len(Cut(w, s).context) = s \/ Len(Cut(w, s).context) >= 1
           /\ EndsWith(w, Whole(Cut(w, s)), s - Len(Cut(w, s).context))
           /\ Len(Cut(w, s).buffer) = Len(w) - s
<1>1. w \in Seq(Alphabet) /\ d \in Nat /\ Len(w) \in Nat /\ s \in Nat /\ s <= Len(w)
    BY DEF EndsWith
<1> DEFINE c == Cut(w, s).context
           b == Cut(w, s).buffer
           n == Len(w)
<1>2. PICK i \in 0 .. s : /\ i = 0 \/ s - i >= 1
                          /\ c = SubSeq(w, i + 1, s) /\ s - i <= Lookbehind
                          /\ b = SubSeq(w, s + 1, n)
    BY <1>1, CutParts
<1>3. i \in Nat /\ i <= s
    BY <1>1
<1>4. c \in Seq(Alphabet) /\ Len(c) = s - i /\ \A k \in 1 .. s - i : c[k] = w[k + i]
  <2> HIDE DEF c, b
  <2> QED BY <1>1, <1>2, <1>3, CutFacts
<1>5. b \in Seq(Alphabet) /\ Len(b) = n - s /\ \A k \in 1 .. n - s : b[k] = w[k + s]
  <2> HIDE DEF c, b
  <2> QED BY <1>1, <1>2, CutFacts
<1> DEFINE v == c \o b
<1>6. Whole(Cut(w, s)) = v
    BY DEF Whole
<1> HIDE DEF c, b, n
<1>7. /\ v \in Seq(Alphabet) /\ Len(v) = Len(c) + Len(b)
      /\ \A k \in 1 .. Len(c) : v[k] = c[k]
      /\ \A k \in 1 .. Len(b) : v[Len(c) + k] = b[k]
    BY <1>4, <1>5, WholeFacts
<1> HIDE DEF v
<1>8. Len(v) = n - i /\ n \in Nat /\ s <= n
    BY <1>1, <1>3, <1>4, <1>5, <1>7 DEF n
<1>9. ASSUME NEW k \in 1 .. n - i PROVE v[k] = w[k + i]
  <2>1. CASE k <= s - i
    <3>1. k \in 1 .. s - i
        BY <1>1, <1>3, <2>1
    <3> QED BY <1>4, <1>7, <3>1
  <2>2. CASE ~(k <= s - i)
    <3>1. PICK m \in 1 .. n - s : m = k - (s - i)
        BY <1>1, <1>3, <1>8, <2>2
    <3>2. (s - i) + m = k /\ m + s = k + i
        BY <1>1, <1>3, <1>8, <3>1
    <3> QED BY <1>4, <1>5, <1>7, <3>2
  <2> QED BY <2>1, <2>2
<1>10. EndsWith(w, v, i)
  <2>1. n = (n - i) + i
      BY <1>1, <1>3, <1>8
  <2> QED BY <1>1, <1>3, <1>7, <1>8, <1>9, <2>1 DEF EndsWith, n
<1>11. EndsWith(t, v, i + d)
    BY <1>10, EndsWithAgain
<1>12. s - Len(c) = i /\ (s + d) - Len(c) = i + d /\ s + d \in Nat /\ Len(c) <= s + d /\ Len(c) <= s
    BY <1>1, <1>3, <1>4
<1>13. (Len(c) = s + d \/ Len(c) >= 1) /\ (Len(c) = s \/ Len(c) >= 1)
  <2>1. CASE i = 0
      BY <1>1, <1>4, <2>1
  <2>2. CASE s - i >= 1
      BY <1>4, <2>2
  <2> QED BY <1>2, <2>1, <2>2
<1>14. Cut(w, s).buffer = b /\ Cut(w, s).context = c
    BY DEF b, c
<1>15. Kept(t, Cut(w, s), s + d)
    BY <1>4, <1>5, <1>6, <1>11, <1>12, <1>13, <1>14 DEF Kept
<1> QED BY <1>2, <1>4, <1>5, <1>6, <1>8, <1>10, <1>12, <1>13, <1>14, <1>15 DEF n

----------------------------------------------------------------------------
(* WHAT IS OUT IS OUT.                                                     *)

(* Matches that agree about a character show it alike.                     *)
LEMMA PieceDepends ==
    ASSUME NEW t, NEW I, NEW J, NEW k,
           \A m : m.first = k \/ k \in m.first .. m.last => (m \in I <=> m \in J)
    PROVE  Piece(t, I, k) = Piece(t, J, k)
<1>1. (\E m \in I : m.first = k) <=> (\E m \in J : m.first = k)
    OBVIOUS
<1>2. (\E m \in I : k \in m.first .. m.last) <=> (\E m \in J : k \in m.first .. m.last)
    OBVIOUS
<1> QED BY <1>1, <1>2 DEF Piece

(* No match lies across p.                                                 *)
Clean(M, p) == \A m \in M : m.first <= p => m.last <= p

(* A text that ends at a clean place without an open position before it is *)
(* matched and shown there as it is whatever follows.                      *)
LEMMA Before ==
    ASSUME NEW T, NEW t, BeginsWith(T, t), NEW p \in Nat, p <= Len(t),
           \A i \in 1 .. p : ~Open(t, i), Clean(Matches(t, 1), p)
    PROVE  /\ Clean(Matches(T, 1), p)
           /\ \A e \in Nat : p <= e =>
                 SamePieces(T, EndingBy(Matches(T, 1), e), t, EndingBy(Matches(t, 1), p), 1, p, 0)
<1> DEFINE M == Matches(T, 1)
           M1 == Matches(t, 1)
           A == {m \in M : m.first <= p}
           A1 == {m \in M1 : m.first <= p}
<1>1. /\ T \in Seq(Alphabet) /\ t \in Seq(Alphabet) /\ Len(t) <= Len(T)
      /\ \A k \in 1 .. Len(t) : T[k] = t[k]
    BY DEF BeginsWith
<1>2. Len(t) \in Nat /\ Len(T) \in Nat /\ p <= Len(T) /\ 1 \in Nat /\ 0 \in Nat
    BY <1>1
<1>3. IsScan(T, 1, Len(T), M) /\ IsScan(t, 1, Len(t), M1)
    BY <1>1, <1>2, MatchesScan
<1> HIDE DEF M, M1
<1>4. IsScan(T, 1, p, A) /\ IsScan(t, 1, p, A1)
    BY <1>2, <1>3, ScanUpTo
<1>5. \A i \in 1 .. p : MatchEnd(T, i) = MatchEnd(t, i) /\ MatchEnd(t, i) \in Nat
  <2> SUFFICES ASSUME NEW i \in 1 .. p
               PROVE  MatchEnd(T, i) = MatchEnd(t, i) /\ MatchEnd(t, i) \in Nat
      OBVIOUS
  <2>1. i \in 1 .. Len(t)
      BY <1>2
  <2>2. MatchEnd(t, i) = 0 \/ MatchEnd(t, i) \in i + 1 .. i + 4
      BY <1>1, <2>1, MatchRange
  <2>3. MatchEnd(t, i) \in Nat
      BY <2>2
  <2> QED BY <2>1, <2>3, MatchKept
<1>6. SameEnds(T, t, 0, 1, p)
  <2>1. \A i \in 1 .. p : i + 0 = i
      OBVIOUS
  <2>2. \A n \in Nat : n + 0 = n
      OBVIOUS
  <2> QED BY <1>5, <2>1, <2>2 DEF SameEnds
<1>7. 1 + 0 = 1 /\ p + 0 = p
    OBVIOUS
<1> HIDE DEF A, A1
<1>8. \A i \in 1 .. p : Starts(A1, i) <=> Starts(A, i)
  <2>1. IsScan(T, 1 + 0, p + 0, A)
      BY <1>4, <1>7
  <2>2. \A i \in 1 .. p : Starts(A1, i) <=> Starts(A, i + 0)
      BY <1>2, <1>4, <1>6, <2>1, ScanSame
  <2>3. \A i \in 1 .. p : i + 0 = i
      OBVIOUS
  <2> QED BY <2>2, <2>3
<1>9. /\ \A m \in M : m.first \in Nat /\ m.last \in Nat /\ m.last = MatchEnd(T, m.first) /\ m.first >= 1
      /\ \A m \in M1 : m.first \in Nat /\ m.last \in Nat /\ m.last = MatchEnd(t, m.first)
  <2>1. \A m \in M : m.first \in Nat /\ m.first \in 1 .. Len(T) /\ m.last \in Nat
                     /\ m.last = MatchEnd(T, m.first)
      BY <1>2, <1>3, ScanFacts
  <2>2. \A m \in M1 : m.first \in Nat /\ m.last \in Nat /\ m.last = MatchEnd(t, m.first)
      BY <1>2, <1>3, ScanFacts
  <2> QED BY <1>2, <2>1, <2>2
<1>10. Clean(M, p)
  <2> SUFFICES ASSUME NEW m \in M, m.first <= p PROVE m.last <= p
      BY DEF Clean
  <2>1. m.first \in 1 .. p
      BY <1>9
  <2>2. Starts(A, m.first)
      BY DEF Starts, A
  <2>3. PICK o \in A1 : o.first = m.first
      BY <1>8, <2>1, <2>2 DEF Starts
  <2>4. o \in M1 /\ o.last = m.last
      BY <1>5, <1>9, <2>1, <2>3 DEF A1
  <2>5. o.last <= p
      BY <2>3, <2>4 DEF Clean, M1
  <2> QED BY <2>4, <2>5
<1>11. ASSUME NEW e \in Nat, p <= e, NEW k \in 1 .. p
       PROVE  Piece(T, EndingBy(M, e), k + 0) = Piece(t, EndingBy(M1, p), k)
  <2>1. k + 0 = k /\ k \in Nat
      OBVIOUS
  <2>2. k \in 1 .. Len(t)
      BY <1>2
  <2>3. t[k] = T[k + 0]
      BY <1>1, <2>1, <2>2
  <2>4. Piece(t, EndingBy(A1, p), k) = Piece(T, EndingBy(A, p + 0), k + 0)
      BY <1>2, <1>4, <1>6, <1>7, <2>3, PieceSame
  <2>5. Piece(T, EndingBy(M, e), k) = Piece(T, EndingBy(A, p), k)
    <3>1. ASSUME NEW m, m.first = k \/ k \in m.first .. m.last
          PROVE  m \in EndingBy(M, e) <=> m \in EndingBy(A, p)
      <4>1. ASSUME m \in M PROVE m.first <= p /\ m.last <= p /\ m.last <= e
        <5>1. m.first <= k
            BY <1>9, <2>1, <3>1, <4>1
        <5>2. m.first <= p
            BY <1>9, <2>1, <4>1, <5>1
        <5>3. m.last <= p
            BY <1>10, <4>1, <5>2 DEF Clean
        <5> QED BY <1>9, <1>11, <4>1, <5>2, <5>3
      <4>2. m \in A => m \in M
          BY DEF A
      <4> QED BY <4>1, <4>2 DEF EndingBy, A
    <3> QED BY <3>1, PieceDepends
  <2>6. Piece(t, EndingBy(M1, p), k) = Piece(t, EndingBy(A1, p), k)
    <3>1. ASSUME NEW m, m.first = k \/ k \in m.first .. m.last
          PROVE  m \in EndingBy(M1, p) <=> m \in EndingBy(A1, p)
      <4>1. ASSUME m \in M1 PROVE m.first <= p
        <5>1. m.first <= k
            BY <1>9, <2>1, <3>1, <4>1
        <5> QED BY <1>9, <2>1, <4>1, <5>1
      <4> QED BY <4>1 DEF EndingBy, A1
    <3> QED BY <3>1, PieceDepends
  <2> QED BY <1>7, <2>1, <2>4, <2>5, <2>6
<1>12. \A e \in Nat : p <= e => SamePieces(T, EndingBy(M, e), t, EndingBy(M1, p), 1, p, 0)
    BY <1>11 DEF SamePieces
<1> QED BY <1>10, <1>12 DEF M, M1

(* The matches N of t are those of w, which t is d characters before.      *)
Agree(t, w, d, a, b, N, M) ==
    /\ d \in Nat /\ a \in Nat /\ b \in Nat
    /\ SameEnds(t, w, d, a, b) /\ IsScan(w, a, b, M) /\ IsScan(t, a + d, b + d, N)

LEMMA AgreeShown ==
    ASSUME NEW t, NEW w, NEW d, NEW a, NEW b, NEW N, NEW M, Agree(t, w, d, a, b, N, M)
    PROVE  \A s \in Nat, k \in a .. b : w[k] = t[k + d] =>
              Piece(w, EndingBy(M, s), k) = Piece(t, EndingBy(N, s + d), k + d)
<1>1. d \in Nat /\ a \in Nat /\ b \in Nat
    BY DEF Agree
<1>2. SameEnds(t, w, d, a, b) /\ IsScan(w, a, b, M) /\ IsScan(t, a + d, b + d, N)
    BY DEF Agree
<1> QED BY <1>1, <1>2, PieceSame

(* What follows a clean place is matched and shown as the suffix that the  *)
(* redactor sees is, up to where that is clean.                            *)
LEMMA After ==
    ASSUME NEW T, NEW w, NEW d, EndsWith(T, w, d), NEW a \in Nat, d = 0 \/ a >= 1,
           NEW p \in Nat, p = a + d, Clean(Matches(T, 1), p),
           NEW s \in Nat, a <= s, s <= Len(w), Clean(Matches(w, a + 1), s)
    PROVE  /\ Clean(Matches(T, 1), s + d)
           /\ SamePieces(T, EndingBy(Matches(T, 1), s + d), w, EndingBy(Matches(w, a + 1), s), a + 1, s, d)
<1> DEFINE M == Matches(T, 1)
           W == Matches(w, a + 1)
           B == {m \in M : m.first >= p + 1}
<1>1. /\ T \in Seq(Alphabet) /\ w \in Seq(Alphabet) /\ d \in Nat /\ Len(T) = Len(w) + d
      /\ \A k \in 1 .. Len(w) : w[k] = T[k + d]
    BY DEF EndsWith
<1>2. /\ Len(T) \in Nat /\ Len(w) \in Nat /\ 1 \in Nat /\ a + 1 \in Nat /\ p + 1 \in Nat
      /\ 1 \in 1 .. Len(T) + 1 /\ a + 1 \in 1 .. Len(w) + 1 /\ 1 <= p + 1 /\ s + d \in Nat
      /\ (a + 1) + d = p + 1 /\ p <= s + d
    BY <1>1
<1>3. IsScan(T, 1, Len(T), M) /\ IsScan(w, a + 1, Len(w), W)
    BY <1>1, <1>2, MatchesScan
<1>4. \A m \in M : m.first \in Nat /\ m.last \in Nat /\ m.last = MatchEnd(T, m.first)
                   /\ m.first <= Len(T)
  <2> HIDE DEF M
  <2>1. \A m \in M : m.first \in Nat /\ m.first \in 1 .. Len(T) /\ m.last \in Nat
                     /\ m.last = MatchEnd(T, m.first)
      BY <1>2, <1>3, ScanFacts
  <2> QED BY <1>2, <2>1
<1>5. \A m \in W : m.first \in Nat /\ m.last \in Nat /\ m.last = MatchEnd(w, m.first)
  <2> HIDE DEF W
  <2> QED BY <1>2, <1>3, ScanFacts
<1>6. \A m \in M : m.first < p + 1 => m.last < p + 1
  <2> SUFFICES ASSUME NEW m \in M, m.first < p + 1 PROVE m.last < p + 1
      OBVIOUS
  <2>1. m.first <= p
      BY <1>4
  <2>2. m.last <= p
      BY <2>1 DEF Clean
  <2> QED BY <1>4, <2>2
<1> HIDE DEF M, W
<1>7. IsScan(T, p + 1, Len(T), B)
    BY <1>2, <1>3, <1>6, ScanFrom
<1>8. IsScan(T, (a + 1) + d, Len(w) + d, B)
    BY <1>1, <1>2, <1>7
<1>9. SameEnds(T, w, d, a + 1, Len(w))
  <2> SUFFICES ASSUME NEW i \in a + 1 .. Len(w)
               PROVE  MatchEnd(T, i + d) = IF MatchEnd(w, i) = 0 THEN 0 ELSE MatchEnd(w, i) + d
      BY DEF SameEnds
  <2>1. i \in 1 .. Len(w) /\ (d = 0 \/ i >= 2)
      BY <1>2
  <2> QED BY <2>1, MatchShift
<1> HIDE DEF B
<1>10. \A i \in a + 1 .. Len(w) : Starts(W, i) <=> Starts(B, i + d)
    BY <1>1, <1>2, <1>3, <1>8, <1>9, ScanSame
<1>11. Clean(M, s + d)
  <2> SUFFICES ASSUME NEW m \in M, m.first <= s + d PROVE m.last <= s + d
      BY DEF Clean
  <2>1. CASE m.first <= p
    <3>1. m.last <= p
        BY <2>1 DEF Clean, M
    <3> QED BY <1>2, <1>4, <3>1
  <2>2. CASE ~(m.first <= p)
    <3>1. m.first >= p + 1
        BY <1>4, <2>2
    <3>2. PICK i \in Nat : m.first = i + d
      <4>1. m.first - d \in Nat /\ m.first = (m.first - d) + d
          BY <1>1, <1>4, <3>1
      <4> QED BY <4>1
    <3>3. i \in a + 1 .. Len(w) /\ i <= s
        BY <1>1, <1>2, <1>4, <3>1, <3>2
    <3>4. Starts(B, i + d)
        BY <3>1, <3>2 DEF Starts, B
    <3>5. PICK o \in W : o.first = i
        BY <1>10, <3>3, <3>4 DEF Starts
    <3>6. o.last <= s
        BY <3>3, <3>5 DEF Clean, W
    <3>7. o.last = MatchEnd(w, i) /\ o.last \in Nat
        BY <1>5, <3>5
    <3>8. m.last = IF o.last = 0 THEN 0 ELSE o.last + d
        BY <1>4, <1>9, <3>2, <3>3, <3>7 DEF SameEnds
    <3> QED BY <1>1, <1>2, <3>6, <3>7, <3>8
  <2> QED BY <2>1, <2>2
<1>12. ASSUME NEW k \in a + 1 .. s
       PROVE  Piece(T, EndingBy(M, s + d), k + d) = Piece(w, EndingBy(W, s), k)
  <2>1. k \in a + 1 .. Len(w) /\ k \in 1 .. Len(w) /\ k \in Nat /\ k + d >= p + 1
      BY <1>1, <1>2
  <2>2. w[k] = T[k + d]
      BY <1>1, <2>1
  <2>3. Piece(w, EndingBy(W, s), k) = Piece(T, EndingBy(B, s + d), k + d)
    <3>1. Agree(T, w, d, a + 1, Len(w), B, W)
        BY <1>1, <1>2, <1>3, <1>8, <1>9 DEF Agree
    <3> QED BY <2>1, <2>2, <3>1, AgreeShown
  <2>4. Piece(T, EndingBy(M, s + d), k + d) = Piece(T, EndingBy(B, s + d), k + d)
    <3>1. ASSUME NEW m, m.first = k + d \/ k + d \in m.first .. m.last
          PROVE  m \in EndingBy(M, s + d) <=> m \in EndingBy(B, s + d)
      <4>1. ASSUME m \in M PROVE m.first >= p + 1
        <5>1. CASE m.first <= p
          <6>1. m.last <= p
              BY <4>1, <5>1 DEF Clean, M
          <6>2. m.first < k + d /\ m.last < k + d
              BY <1>1, <1>4, <2>1, <4>1, <5>1, <6>1
          <6> QED BY <1>1, <1>4, <2>1, <3>1, <4>1, <6>2
        <5> QED BY <1>4, <4>1, <5>1
      <4>2. m \in B <=> m \in M /\ m.first >= p + 1
          BY DEF B
      <4> QED BY <4>1, <4>2 DEF EndingBy
    <3> QED BY <3>1, PieceDepends
  <2> QED BY <2>3, <2>4
<1>13. SamePieces(T, EndingBy(M, s + d), w, EndingBy(W, s), a + 1, s, d)
    BY <1>12 DEF SamePieces
<1> QED BY <1>11, <1>13 DEF M, W

(* Where the redactor stands in t, the text it was fed: out went out, the  *)
(* redaction of the first p characters, which no continuation changes.     *)
Settled(t, r, out, p) ==
    /\ Kept(t, r, p)
    /\ \A i \in 1 .. p : ~Open(t, i)
    /\ Clean(Matches(t, 1), p)
    /\ out = RedactRange(t, 0, p, Matches(t, 1))

KeptAs(t, r, p, a, d) ==
    /\ a \in Nat /\ d \in Nat /\ p \in Nat /\ a = Len(r.context) /\ p = a + d /\ (d = 0 \/ a >= 1)
    /\ EndsWith(t, Whole(r), d) /\ EndsWith(t, r.buffer, p)
    /\ t \in Seq(Alphabet) /\ Whole(r) \in Seq(Alphabet)
    /\ r.buffer \in Seq(Alphabet) /\ r.context \in Seq(Alphabet)
    /\ Len(Whole(r)) = a + Len(r.buffer) /\ Len(t) = p + Len(r.buffer)
    /\ a <= Len(Whole(r)) /\ p <= Len(t)
    /\ \A k \in 1 .. Len(r.buffer) : r.buffer[k] = Whole(r)[a + k]

LEMMA KeptFacts ==
    ASSUME NEW t, NEW r, NEW p, Kept(t, r, p)
    PROVE  \E a, d : KeptAs(t, r, p, a, d)
<1> DEFINE c == r.context
           b == r.buffer
           w == Whole(r)
<1>1. /\ b \in Seq(Alphabet) /\ c \in Seq(Alphabet) /\ p \in Nat /\ Len(c) <= p
      /\ (Len(c) = p \/ Len(c) >= 1) /\ EndsWith(t, w, p - Len(c))
    BY DEF Kept
<1>2. w = c \o b
    BY DEF Whole
<1> HIDE DEF w, c, b
<1>3. w \in Seq(Alphabet) /\ Len(w) = Len(c) + Len(b) /\ \A k \in 1 .. Len(b) : w[Len(c) + k] = b[k]
    BY <1>1, <1>2, WholeFacts
<1>4. PICK a \in Nat : a = Len(c)
    BY <1>1
<1>5. PICK d \in Nat : d = p - a
    BY <1>1, <1>4
<1>6. p = a + d /\ (d = 0 \/ a >= 1)
    BY <1>1, <1>4, <1>5
<1>7. EndsWith(t, w, d)
    BY <1>1, <1>4, <1>5
<1>8. t \in Seq(Alphabet) /\ Len(t) = Len(w) + d /\ \A k \in 1 .. Len(w) : w[k] = t[k + d]
    BY <1>7 DEF EndsWith
<1>9. Len(b) \in Nat /\ Len(t) \in Nat /\ Len(w) \in Nat
    BY <1>1, <1>3, <1>8
<1>10. Len(w) = a + Len(b) /\ Len(t) = p + Len(b) /\ Len(t) = Len(b) + p /\ a <= Len(w) /\ p <= Len(t)
    BY <1>3, <1>4, <1>6, <1>8, <1>9
<1>11. ASSUME NEW k \in 1 .. Len(b) PROVE b[k] = t[k + p] /\ b[k] = w[a + k]
  <2>1. a + k \in 1 .. Len(w) /\ (a + k) + d = k + p
      BY <1>6, <1>9, <1>10
  <2>2. b[k] = w[a + k]
      BY <1>3, <1>4
  <2> QED BY <1>8, <2>1, <2>2
<1>12. EndsWith(t, b, p)
    BY <1>1, <1>8, <1>10, <1>11 DEF EndsWith
<1>13. KeptAs(t, r, p, a, d)
    BY <1>1, <1>3, <1>4, <1>6, <1>7, <1>8, <1>10, <1>11, <1>12 DEF w, c, b, KeptAs
<1> QED BY <1>13

(* From where it stands the redactor goes on, in a text that grew, to s of *)
(* what it holds: what it lets go there joins what it let go before.       *)
GoesTo(t, q, out, p, T, r, a, d, s) ==
    /\ Settled(t, q, out, p) /\ BeginsWith(T, t) /\ Kept(T, r, p)
    /\ a = Len(r.context) /\ p = a + d /\ a \in Nat /\ d \in Nat
    /\ s \in Nat /\ a <= s /\ s <= Len(Whole(r)) /\ Clean(Matches(Whole(r), a + 1), s)

LEMMA Emitted ==
    ASSUME NEW t, NEW q, NEW out, NEW p, NEW T, NEW r, NEW a, NEW d, NEW s,
           GoesTo(t, q, out, p, T, r, a, d, s)
    PROVE  /\ Clean(Matches(T, 1), s + d)
           /\ RedactRange(T, 0, s + d, Matches(T, 1))
                 = Cat(out, RedactRange(Whole(r), a, s, Matches(Whole(r), a + 1)))
           /\ out \in Seq(Shown)
           /\ RedactRange(Whole(r), a, s, Matches(Whole(r), a + 1)) \in Seq(Shown)
<1> DEFINE w == Whole(r)
<1>1. Settled(t, q, out, p) /\ BeginsWith(T, t) /\ Kept(T, r, p)
    BY DEF GoesTo
<1>2. /\ a = Len(r.context) /\ p = a + d /\ a \in Nat /\ d \in Nat
      /\ s \in Nat /\ a <= s /\ s <= Len(w) /\ Clean(Matches(w, a + 1), s)
    BY DEF GoesTo
<1>3. /\ Kept(t, q, p) /\ (\A i \in 1 .. p : ~Open(t, i)) /\ Clean(Matches(t, 1), p)
      /\ out = RedactRange(t, 0, p, Matches(t, 1))
    BY <1>1 DEF Settled
<1>4. p \in Nat /\ p <= Len(t)
  <2>1. PICK b, e : KeptAs(t, q, p, b, e)
      BY <1>3, KeptFacts
  <2> QED BY <2>1 DEF KeptAs
<1>5. EndsWith(T, w, d) /\ (d = 0 \/ a >= 1) /\ T \in Seq(Alphabet) /\ Len(T) = Len(w) + d
  <2>1. PICK b, e : KeptAs(T, r, p, b, e)
      BY <1>1, KeptFacts
  <2>2. e = d /\ b = a
      BY <1>2, <2>1 DEF KeptAs
  <2> QED BY <2>1, <2>2 DEF KeptAs, EndsWith
<1> HIDE DEF w
<1> DEFINE M == Matches(T, 1)
           M1 == Matches(t, 1)
           M2 == Matches(w, a + 1)
<1>6. Clean(M, p) /\ \A e \in Nat : p <= e =>
                       SamePieces(T, EndingBy(M, e), t, EndingBy(M1, p), 1, p, 0)
    BY <1>1, <1>3, <1>4, Before
<1>7. Clean(M, s + d) /\ SamePieces(T, EndingBy(M, s + d), w, EndingBy(M2, s), a + 1, s, d)
    BY <1>2, <1>4, <1>5, <1>6, After
<1> HIDE DEF M, M1, M2
<1>8. PICK e \in Nat : e = s + d
    BY <1>2
<1>9. p <= e /\ e <= Len(T)
  <2>1. Len(w) \in Nat
      BY <1>5 DEF EndsWith
  <2> QED BY <1>2, <1>5, <1>8, <2>1
<1>10. SamePieces(T, EndingBy(M, e), t, EndingBy(M1, p), 1, p, 0)
    BY <1>6, <1>9
<1>11. SamePieces(T, EndingBy(M, e), w, EndingBy(M2, s), a + 1, s, d)
    BY <1>7, <1>8
<1>12. /\ RedactRange(t, 0, p, M1) \in Seq(Shown)
       /\ RedactRange(w, a, s, M2) \in Seq(Shown)
       /\ RedactRange(T, 0, e, M) = Cat(RedactRange(t, 0, p, M1), RedactRange(w, a, s, M2))
  <2>1. Joins(T, M, e, t, M1, p, w, M2, a, s, d)
      BY <1>2, <1>4, <1>5, <1>8, <1>9, <1>10, <1>11 DEF Joins
  <2> QED BY <2>1, OutJoins
<1> QED BY <1>3, <1>7, <1>8, <1>12 DEF w, M, M1, M2

----------------------------------------------------------------------------
(* feed(): a clean cut, behind which nothing is open.                      *)
Longer(r, chunk) == [buffer |-> r.buffer \o chunk, context |-> r.context]

CutAt(r, chunk, w, a, h, s) ==
    /\ w = Whole(Longer(r, chunk)) /\ a = Len(r.context) /\ h = Holdback(r.buffer \o chunk)
    /\ a \in Nat /\ h \in Nat /\ s \in Nat /\ a <= s /\ s <= Len(w) - h /\ s <= Len(w)
    /\ w \in Seq(Alphabet) /\ Len(w) = a + Len(r.buffer \o chunk)
    /\ Clean(Matches(w, a + 1), s)
    /\ s = Len(w) - h \/ \E m \in Matches(w, a + 1) : m.first = s + 1 /\ Len(w) - h < m.last
    /\ Feed(r, chunk).redactor = Cut(w, s)
    /\ Feed(r, chunk).emit = RedactRange(w, a, s, Matches(w, a + 1))

LEMMA FeedCuts ==
    ASSUME NEW r, r.buffer \in Seq(Alphabet), r.context \in Seq(Alphabet),
           NEW chunk \in Seq(Alphabet)
    PROVE  \E w, a, h, s : CutAt(r, chunk, w, a, h, s)
<1> DEFINE b == r.buffer \o chunk
           c == r.context
           w == c \o b
           a == Len(c)
           W == Matches(w, a + 1)
           h == Holdback(b)
           n == Len(w)
           s == PullBack(n - h, a, W)
<1>1. b \in Seq(Alphabet) /\ c \in Seq(Alphabet)
    BY WholeFacts
<1>2. w = Whole(Longer(r, chunk))
    BY DEF Whole, Longer
<1>3. Feed(r, chunk).redactor = Cut(w, s) /\ Feed(r, chunk).emit = RedactRange(w, a, s, W)
    BY DEF Feed, Cut
<1> HIDE DEF b, c
<1>4. w \in Seq(Alphabet) /\ n = a + Len(b)
    BY <1>1, WholeFacts
<1> HIDE DEF w, a
<1>5. a \in Nat /\ Len(b) \in Nat /\ n \in Nat
    BY <1>1, <1>4 DEF a
<1>6. h \in Nat /\ h <= Len(b)
    BY <1>1, HoldbackFacts
<1>7. a + 1 \in 1 .. n + 1 /\ a + 1 \in Nat
    BY <1>4, <1>5
<1>8. IsScan(w, a + 1, n, W)
    BY <1>4, <1>7, MatchesScan
<1> HIDE DEF W, h, n
<1>9. n - h \in a .. n
    BY <1>4, <1>5, <1>6
<1>10. /\ s \in a .. n - h
       /\ \A m \in W : m.first <= s => m.last <= s
       /\ s = n - h \/ \E m \in W : m.first = s + 1 /\ n - h < m.last
  <2>1. PICK x \in a .. n : x = n - h
      BY <1>9
  <2>2. /\ PullBack(x, a, W) \in a .. x
        /\ \A m \in W : m.first <= PullBack(x, a, W) => m.last <= PullBack(x, a, W)
        /\ PullBack(x, a, W) = x \/ \E m \in W : m.first = PullBack(x, a, W) + 1 /\ x < m.last
    <3>1. ScannedFrom(w, a, n, W)
        BY <1>5, <1>8 DEF ScannedFrom
    <3> QED BY <3>1, PullBackFacts
  <2>3. s = PullBack(x, a, W)
      BY <2>1
  <2> HIDE DEF s
  <2> QED BY <2>1, <2>2, <2>3
<1> HIDE DEF s
<1>11. s \in Nat /\ a <= s /\ s <= n - h /\ s <= n
    BY <1>5, <1>6, <1>10
<1>12. Clean(W, s)
    BY <1>10 DEF Clean
<1>13. CutAt(r, chunk, w, a, h, s)
    BY <1>2, <1>3, <1>4, <1>5, <1>6, <1>10, <1>11, <1>12 DEF CutAt, b, c, a, W, h, n
<1> QED BY <1>13

LEMMA OpenShift ==
    ASSUME NEW t, NEW b, NEW p, EndsWith(t, b, p), NEW k \in 1 .. Len(b)
    PROVE  Open(t, k + p) <=> Open(b, k)
<1>1. /\ t \in Seq(Alphabet) /\ b \in Seq(Alphabet) /\ p \in Nat /\ Len(t) = Len(b) + p
      /\ b[k] = t[k + p]
    BY DEF EndsWith
<1>2. Len(b) \in Nat /\ k \in Nat \ {0} /\ Len(b) - k = Len(t) - (k + p) /\ Len(b) <= Len(b)
    BY <1>1
<1>3. \A C : Span(b, C, k, Len(b)) <=> Span(t, C, k + p, Len(b) + p)
    BY <1>2, SpanShift
<1>4. Run(b, k, Len(b)) <=> Run(t, k + p, Len(t))
    BY <1>1, <1>3 DEF Run
<1> QED BY <1>2, <1>4 DEF Open

LEMMA Fed ==
    ASSUME NEW t, NEW r, NEW out, NEW p, Settled(t, r, out, p), NEW chunk \in Seq(Alphabet)
    PROVE  /\ \E q : Settled(t \o chunk, Feed(r, chunk).redactor, Cat(out, Feed(r, chunk).emit), q)
           /\ out \in Seq(Shown) /\ Feed(r, chunk).emit \in Seq(Shown)
<1> DEFINE T == t \o chunk
           q == Longer(r, chunk)
           b == r.buffer \o chunk
<1>1. Kept(t, r, p) /\ (\A i \in 1 .. p : ~Open(t, i))
    BY DEF Settled
<1>2. Kept(T, q, p) /\ BeginsWith(T, t)
    BY <1>1, KeptGrows DEF Longer
<1>3. r.buffer \in Seq(Alphabet) /\ r.context \in Seq(Alphabet)
    BY <1>1 DEF Kept
<1>4. q.context = r.context /\ q.buffer = b
    BY DEF Longer
<1>5. PICK w, a, h, s : CutAt(r, chunk, w, a, h, s)
    BY <1>3, FeedCuts
<1>6. /\ w = Whole(q) /\ a = Len(r.context) /\ h = Holdback(b)
      /\ a \in Nat /\ h \in Nat /\ s \in Nat /\ a <= s /\ s <= Len(w) - h /\ s <= Len(w)
      /\ w \in Seq(Alphabet) /\ Len(w) = a + Len(b)
      /\ Clean(Matches(w, a + 1), s)
      /\ Feed(r, chunk).redactor = Cut(w, s)
      /\ Feed(r, chunk).emit = RedactRange(w, a, s, Matches(w, a + 1))
    BY <1>5 DEF CutAt
<1> HIDE DEF q, b
<1>7. PICK d \in Nat : /\ p = a + d /\ (d = 0 \/ a >= 1) /\ EndsWith(T, w, d) /\ p \in Nat
                       /\ EndsWith(T, b, p) /\ Len(T) = p + Len(b) /\ b \in Seq(Alphabet)
  <2> HIDE DEF T
  <2>1. PICK a1, d : KeptAs(T, q, p, a1, d)
      BY <1>2, KeptFacts
  <2>2. a1 = a
      BY <1>4, <1>6, <2>1 DEF KeptAs
  <2> QED BY <1>4, <1>6, <2>1, <2>2 DEF KeptAs
<1>8. p <= Len(t) /\ t \in Seq(Alphabet)
  <2>1. PICK a1, d1 : KeptAs(t, r, p, a1, d1)
      BY <1>1, KeptFacts
  <2> QED BY <2>1 DEF KeptAs
<1> HIDE DEF T
<1>9. GoesTo(t, r, out, p, T, q, a, d, s)
    BY <1>2, <1>4, <1>6, <1>7 DEF GoesTo
<1>10. /\ Clean(Matches(T, 1), s + d)
       /\ RedactRange(T, 0, s + d, Matches(T, 1)) = Cat(out, Feed(r, chunk).emit)
       /\ out \in Seq(Shown) /\ Feed(r, chunk).emit \in Seq(Shown)
    BY <1>6, <1>9, Emitted
<1>11. Kept(T, Cut(w, s), s + d)
  <2>1. s \in 0 .. Len(w) /\ (d = 0 \/ s >= 1)
      BY <1>6, <1>7
  <2> QED BY <1>7, <2>1, KeptCut
<1>12. ASSUME NEW i \in 1 .. s + d, Open(T, i) PROVE FALSE
  <2>1. CASE i <= p
    <3>1. i \in 1 .. Len(t) /\ i \in 1 .. p
        BY <1>7, <1>8, <2>1
    <3>2. Open(t, i)
        BY <1>2, <1>12, <3>1, OpenBefore
    <3> QED BY <1>1, <3>1, <3>2
  <2>2. CASE ~(i <= p)
    <3>1. PICK k \in Nat : i = k + p
      <4>1. i - p \in Nat /\ i = (i - p) + p
          BY <1>7, <2>2
      <4> QED BY <4>1
    <3>2. Len(b) \in Nat
        BY <1>7
    <3>3. k \in 1 .. Len(b) /\ k <= Len(b) - h
      <4>1. PICK l \in Nat : l = Len(b)
          BY <3>2
      <4>2. s <= (a + l) - h /\ a \in Nat /\ h \in Nat /\ s \in Nat
          BY <1>6, <4>1
      <4>3. k + p <= s + d /\ p = a + d /\ p \in Nat /\ ~(k + p <= p)
          BY <1>6, <1>7, <2>2, <3>1
      <4>4. k <= l - h /\ k >= 1 /\ k <= l
          BY <4>2, <4>3
      <4> QED BY <4>1, <4>4
    <3>4. Open(b, k)
        BY <1>7, <1>12, <3>1, <3>3, OpenShift
    <3>5. Len(b) - k < h
        BY <1>6, <1>7, <3>3, <3>4, HoldbackFacts
    <3> QED BY <1>6, <3>1, <3>2, <3>3, <3>5
  <2> QED BY <2>1, <2>2
<1>13. Settled(T, Feed(r, chunk).redactor, Cat(out, Feed(r, chunk).emit), s + d)
    BY <1>6, <1>10, <1>11, <1>12 DEF Settled
<1> QED BY <1>10, <1>13 DEF T

(* flush(): the rest of the text.                                          *)
LEMMA Flushed ==
    ASSUME NEW t, NEW r, NEW out, NEW p, Settled(t, r, out, p)
    PROVE  /\ Cat(out, Flush(r)) = RedactComplete(t)
           /\ out \in Seq(Shown) /\ Flush(r) \in Seq(Shown) /\ RedactComplete(t) \in Seq(Shown)
<1>1. Kept(t, r, p)
    BY DEF Settled
<1>2. PICK a, d : KeptAs(t, r, p, a, d)
    BY <1>1, KeptFacts
<1> DEFINE w == Whole(r)
<1>3. /\ a \in Nat /\ d \in Nat /\ p \in Nat /\ a = Len(r.context) /\ p = a + d
      /\ EndsWith(t, w, d) /\ t \in Seq(Alphabet) /\ w \in Seq(Alphabet) /\ a <= Len(w)
    BY <1>2 DEF KeptAs
<1>4. Flush(r) = RedactRange(w, a, Len(w), Matches(w, a + 1))
    BY <1>3 DEF Flush, Whole
<1> HIDE DEF w
<1>5. PICK n \in Nat : n = Len(w)
    BY <1>3
<1>6. n + d = Len(t) /\ a <= n /\ a + 1 \in 1 .. n + 1 /\ a + 1 \in Nat
    BY <1>3, <1>5 DEF EndsWith
<1>7. Clean(Matches(w, a + 1), n)
  <2> SUFFICES ASSUME NEW m \in Matches(w, a + 1) PROVE m.last <= n
      BY DEF Clean
  <2>1. IsScan(w, a + 1, n, Matches(w, a + 1))
      BY <1>3, <1>5, <1>6, MatchesScan
  <2>2. m.first \in a + 1 .. n /\ m.last \in Nat /\ m.last = MatchEnd(w, m.first)
      BY <1>5, <1>6, <2>1, ScanFacts
  <2>3. m.first \in 1 .. Len(w)
      BY <1>3, <1>5, <2>2
  <2>4. MatchEnd(w, m.first) = 0 \/ MatchEnd(w, m.first) <= Len(w)
      BY <1>3, <2>3, MatchRange
  <2> QED BY <1>5, <2>2, <2>4
<1>8. BeginsWith(t, t)
    BY <1>3 DEF BeginsWith
<1>9. GoesTo(t, r, out, p, t, r, a, d, n)
    BY <1>1, <1>3, <1>5, <1>6, <1>7, <1>8 DEF GoesTo, w
<1>10. /\ RedactRange(t, 0, n + d, Matches(t, 1)) = Cat(out, RedactRange(w, a, n, Matches(w, a + 1)))
       /\ out \in Seq(Shown) /\ RedactRange(w, a, n, Matches(w, a + 1)) \in Seq(Shown)
    BY <1>9, Emitted DEF w
<1>11. Cat(out, Flush(r)) = RedactComplete(t)
    BY <1>4, <1>5, <1>6, <1>10 DEF RedactComplete
<1>12. Flush(r) \in Seq(Shown)
    BY <1>4, <1>5, <1>10
<1> QED BY <1>10, <1>11, <1>12, CatType

LEMMA SettledFirst == Settled(<<>>, New, <<>>, 0)
<1> DEFINE t == <<>>
<1>1. t \in Seq(Alphabet) /\ Len(t) = 0 /\ 0 \in Nat /\ 1 \in 1 .. Len(t) + 1 /\ 1 \in Nat
    OBVIOUS
<1>2. t \o t = t
    OBVIOUS
<1>3. New.buffer = t /\ New.context = t
    BY DEF New
<1> HIDE DEF t
<1>4. EndsWith(t, t, 0)
    BY <1>1 DEF EndsWith
<1>5. Kept(t, New, 0)
  <2>1. 0 - 0 = 0 /\ 0 <= 0
      OBVIOUS
  <2> QED BY <1>1, <1>2, <1>3, <1>4, <2>1 DEF Kept, Whole
<1>6. IsScan(t, 1, 0, Matches(t, 1))
    BY <1>1, MatchesScan
<1>7. Clean(Matches(t, 1), 0)
  <2> SUFFICES ASSUME NEW m \in Matches(t, 1) PROVE FALSE
      BY DEF Clean
  <2>1. m.first \in 1 .. 0
      BY <1>1, <1>6, ScanFacts
  <2> QED BY <2>1
<1>8. RedactRange(t, 0, 0, Matches(t, 1)) = <<>>
  <2>1. PICK f : IsOut(f, t, EndingBy(Matches(t, 1), 0), 0, 0)
                 /\ RedactRange(t, 0, 0, Matches(t, 1)) = f[0]
      BY <1>1, OutUnfolds
  <2> QED BY <2>1 DEF IsOut
<1>9. \A i \in 1 .. 0 : ~Open(t, i)
    OBVIOUS
<1>10. Settled(t, New, <<>>, 0)
    BY <1>5, <1>7, <1>8, <1>9 DEF Settled
<1> QED BY <1>10 DEF t

Redactors == [buffer : Seq(Alphabet), context : Seq(Alphabet)]

(* What is held on top of the tail is a match that the cut went behind.    *)
HoldsAMatch(r) ==
    Len(r.buffer) > MaxHoldback =>
        \E m \in Matches(Whole(r), Len(r.context) + 1) :
            /\ m.first = Len(r.context) + 1
            /\ m.last > Len(r.context) + Len(r.buffer) - MaxHoldback

LEMMA FeedHolds ==
    ASSUME NEW r \in Redactors, NEW chunk \in Seq(Alphabet)
    PROVE  /\ Feed(r, chunk).redactor \in Redactors
           /\ Len(Feed(r, chunk).redactor.context) <= Lookbehind
           /\ HoldsAMatch(Feed(r, chunk).redactor)
<1>1. r.buffer \in Seq(Alphabet) /\ r.context \in Seq(Alphabet)
    BY DEF Redactors
<1>2. PICK w, a, h, s : CutAt(r, chunk, w, a, h, s)
    BY <1>1, FeedCuts
<1>3. /\ a \in Nat /\ h = Holdback(r.buffer \o chunk) /\ h \in Nat
      /\ s \in Nat /\ a <= s /\ s <= Len(w)
      /\ w \in Seq(Alphabet) /\ Len(w) = a + Len(r.buffer \o chunk)
      /\ s = Len(w) - h \/ \E m \in Matches(w, a + 1) : m.first = s + 1 /\ Len(w) - h < m.last
      /\ Feed(r, chunk).redactor = Cut(w, s)
    BY <1>2 DEF CutAt
<1>4. h <= MaxHoldback /\ MaxHoldback \in Nat
  <2>1. r.buffer \o chunk \in Seq(Alphabet)
      BY <1>1, WholeFacts
  <2> QED BY <1>3, <2>1, HoldbackFacts, BoundsAssumption
<1> DEFINE q == Cut(w, s)
           v == Whole(q)
<1>5. EndsWith(w, w, 0)
  <2>1. Len(w) = Len(w) + 0 /\ \A k \in 1 .. Len(w) : k + 0 = k
      BY <1>3
  <2> QED BY <1>3, <2>1 DEF EndsWith
<1>6. /\ Kept(w, q, s + 0) /\ Len(q.context) <= Lookbehind /\ Len(q.context) <= s
      /\ Len(q.context) = s \/ Len(q.context) >= 1
      /\ EndsWith(w, v, s - Len(q.context)) /\ Len(q.buffer) = Len(w) - s
  <2>1. s \in 0 .. Len(w)
      BY <1>3
  <2> HIDE DEF q, v
  <2> QED BY <1>5, <2>1, KeptCut DEF q, v
<1>7. q.buffer \in Seq(Alphabet) /\ q.context \in Seq(Alphabet)
    BY <1>6 DEF Kept
<1>8. q \in Redactors
    BY <1>7 DEF Redactors, Cut
<1> HIDE DEF q, v
<1>9. PICK c \in Nat : c = Len(q.context)
    BY <1>7
<1>10. PICK i \in Nat : i = s - c
  <2>1. c <= s /\ s \in Nat
      BY <1>3, <1>6, <1>9
  <2>2. s - c \in Nat
      BY <2>1
  <2> QED BY <2>2
<1>11. s = c + i /\ (i = 0 \/ c >= 1) /\ EndsWith(w, v, i)
    BY <1>3, <1>6, <1>9, <1>10
<1>12. v \in Seq(Alphabet) /\ Len(v) = Len(w) - i
  <2>1. v \in Seq(Alphabet) /\ Len(w) = Len(v) + i /\ Len(v) \in Nat
      BY <1>11 DEF EndsWith
  <2> QED BY <2>1
<1>13. ASSUME Len(q.buffer) > MaxHoldback
       PROVE  \E m \in Matches(v, c + 1) : m.first = c + 1 /\ m.last > c + Len(q.buffer) - MaxHoldback
  <2>1. PICK n \in Nat : n = Len(w)
      BY <1>3
  <2>2. s # n - h /\ s < n
      BY <1>3, <1>4, <1>6, <1>13, <2>1
  <2>3. PICK m \in Matches(w, a + 1) : m.first = s + 1 /\ n - h < m.last
      BY <1>3, <2>1, <2>2
  <2>4. m.last = MatchEnd(w, s + 1) /\ m.last \in Nat /\ m.last # 0
    <3>1. a + 1 \in 1 .. Len(w) + 1 /\ a + 1 \in Nat /\ n = Len(w)
        BY <1>3, <2>1
    <3>2. IsScan(w, a + 1, n, Matches(w, a + 1))
        BY <1>3, <3>1, MatchesScan
    <3>3. m.last = MatchEnd(w, m.first)
        BY <3>1, <3>2, ScanFacts
    <3>4. MatchEnd(w, m.first) \in Nat \ {0}
        BY <3>2 DEF IsScan
    <3> QED BY <2>3, <3>3, <3>4
  <2>5. c + 1 \in 1 .. Len(v) /\ (i = 0 \/ c + 1 >= 2) /\ (c + 1) + i = s + 1
    <3>1. s = c + i /\ (i = 0 \/ c >= 1) /\ Len(v) = n - i /\ s < n
        BY <1>11, <1>12, <2>1, <2>2
    <3> QED BY <3>1
  <2>6. MatchEnd(w, (c + 1) + i) = IF MatchEnd(v, c + 1) = 0 THEN 0 ELSE MatchEnd(v, c + 1) + i
      BY <1>11, <2>5, MatchShift
  <2>7. MatchEnd(v, c + 1) # 0 /\ m.last = MatchEnd(v, c + 1) + i
      BY <2>4, <2>5, <2>6
  <2>8. MatchEnd(v, c + 1) \in Nat
    <3>1. MatchEnd(v, c + 1) = 0 \/ MatchEnd(v, c + 1) \in (c + 1) + 1 .. (c + 1) + 4
        BY <1>12, <2>5, MatchRange
    <3> QED BY <3>1
  <2>9. IsScan(v, c + 1, Len(v), Matches(v, c + 1))
    <3>1. c + 1 \in 1 .. Len(v) + 1
        BY <1>12, <2>5
    <3> QED BY <1>12, <3>1, MatchesScan
  <2>10. PICK o \in Matches(v, c + 1) : o.first <= c + 1 /\ c + 1 <= o.last
    <3>1. c + 1 \in c + 1 .. Len(v)
        BY <2>5
    <3> QED BY <2>7, <2>9, <3>1 DEF IsScan
  <2>11. o.first \in c + 1 .. Len(v) /\ o = [first |-> o.first, last |-> MatchEnd(v, o.first)]
      BY <2>9 DEF IsScan
  <2>12. o.first = c + 1 /\ o.last = MatchEnd(v, c + 1)
    <3>1. o.first = c + 1
        BY <2>10, <2>11
    <3>2. o.last = MatchEnd(v, o.first)
        BY <2>11
    <3> QED BY <3>1, <3>2
  <2>13. o.last > c + Len(q.buffer) - MaxHoldback
    <3>1. Len(q.buffer) = n - s /\ m.last = o.last + i /\ o.last \in Nat
        BY <1>6, <2>1, <2>7, <2>8, <2>12
    <3>2. PICK b : b = Len(q.buffer)
        OBVIOUS
    <3>3. b = n - s /\ s = c + i /\ n - h < o.last + i /\ h <= MaxHoldback /\ h \in Nat
          /\ MaxHoldback \in Nat
        BY <1>3, <1>4, <1>11, <2>3, <3>1, <3>2
    <3>4. o.last > c + b - MaxHoldback
        BY <3>1, <3>3
    <3> QED BY <3>2, <3>4
  <2> QED BY <2>12, <2>13
<1>14. HoldsAMatch(q)
    BY <1>9, <1>13 DEF HoldsAMatch, v
<1> QED BY <1>3, <1>6, <1>8, <1>14 DEF q

----------------------------------------------------------------------------
(* TYPES.                                                                  *)

LEMMA RangeType ==
    ASSUME NEW w \in Seq(Alphabet), NEW a \in Nat, NEW s \in Nat, a <= s, s <= Len(w), NEW M
    PROVE  RedactRange(w, a, s, M) \in Seq(Shown)
<1>1. PICK f : IsOut(f, w, EndingBy(M, s), a, s) /\ RedactRange(w, a, s, M) = f[s]
    BY OutUnfolds
<1> DEFINE I == EndingBy(M, s)
<1> HIDE DEF I
<1>2. f[a] = <<>> /\ \A k \in a + 1 .. s : f[k] = Cat(f[k - 1], Piece(w, I, k))
    BY <1>1 DEF IsOut, I
<1> DEFINE G == {k \in a .. s : f[k] \in Seq(Shown)}
<1>3. a \in G
  <2>1. f[a] \in Seq(Shown) /\ a \in a .. s
      BY <1>2, CatEmpty
  <2> QED BY <2>1
<1>4. ASSUME NEW k \in a + 1 .. s, k - 1 \in G PROVE k \in G
  <2>1. k \in 1 .. Len(w) /\ k \in a .. s
      BY <1>4
  <2>2. Piece(w, I, k) \in Seq(Shown)
      BY <2>1, PieceType
  <2>3. f[k - 1] \in Seq(Shown) /\ f[k] = Cat(f[k - 1], Piece(w, I, k))
      BY <1>2, <1>4
  <2>4. f[k] \in Seq(Shown)
      BY <2>2, <2>3, CatType
  <2> QED BY <2>1, <2>4
<1>5. \A k \in a .. s : k \in G
  <2> HIDE DEF G
  <2> QED BY <1>3, <1>4, Upward
<1>6. s \in a .. s
    OBVIOUS
<1> QED BY <1>1, <1>5, <1>6

LEMMA CompleteType ==
    ASSUME NEW t \in Seq(Alphabet)
    PROVE  RedactComplete(t) \in Seq(Shown)
<1>1. Len(t) \in Nat /\ 0 \in Nat /\ 0 <= Len(t) /\ Len(t) <= Len(t)
    OBVIOUS
<1> QED BY <1>1, RangeType DEF RedactComplete

LEMMA FlushType ==
    ASSUME NEW r \in Redactors
    PROVE  Flush(r) \in Seq(Shown)
<1> DEFINE c == r.context
           b == r.buffer
           w == c \o b
           M == Matches(w, Len(c) + 1)
<1>1. c \in Seq(Alphabet) /\ b \in Seq(Alphabet)
    BY DEF Redactors
<1>2. Flush(r) = RedactRange(w, Len(c), Len(w), M)
    BY DEF Flush
<1> HIDE DEF c, b, M
<1>3. w \in Seq(Alphabet) /\ Len(w) = Len(c) + Len(b)
    BY <1>1, WholeFacts
<1> HIDE DEF w
<1>4. Len(c) \in Nat /\ Len(b) \in Nat /\ Len(w) \in Nat
    BY <1>1, <1>3
<1>5. Len(c) <= Len(w) /\ Len(w) <= Len(w)
    BY <1>3, <1>4
<1> QED BY <1>2, <1>3, <1>4, <1>5, RangeType

LEMMA FeedType ==
    ASSUME NEW r \in Redactors, NEW chunk \in Seq(Alphabet)
    PROVE  Feed(r, chunk).emit \in Seq(Shown)
<1>1. r.buffer \in Seq(Alphabet) /\ r.context \in Seq(Alphabet)
    BY DEF Redactors
<1>2. PICK w, a, h, s : CutAt(r, chunk, w, a, h, s)
    BY <1>1, FeedCuts
<1>3. /\ a \in Nat /\ s \in Nat /\ a <= s /\ s <= Len(w) /\ w \in Seq(Alphabet)
      /\ Feed(r, chunk).emit = RedactRange(w, a, s, Matches(w, a + 1))
    BY <1>2 DEF CutAt
<1> QED BY <1>3, RangeType

----------------------------------------------------------------------------
(* ONE TURN OF THE LOOP.  What the redactor is fed and lets go, and what a *)
(* turn makes of the state.                                                *)
States == [redactor : Redactors, flushed : BOOLEAN, sent : [Indices -> Seq(Alphabet)],
           late : [Indices -> Seq(Alphabet)], got : [Indices -> Seq(Shown)]]

Eaten(r, chunk) == IF chunk = <<>> THEN [redactor |-> r, emit |-> <<>>] ELSE Feed(r, chunk)

Holding(r) == r \in Redactors /\ Len(r.context) <= Lookbehind /\ HoldsAMatch(r)

LEMMA NewHolds == Holding(New)
<1>1. <<>> \in Seq(Alphabet) /\ Len(<<>>) = 0
    OBVIOUS
<1>2. MaxHoldback \in Nat /\ Lookbehind \in Nat
    BY BoundsAssumption
<1> QED BY <1>1, <1>2 DEF Holding, New, Redactors, HoldsAMatch

LEMMA EatenFacts ==
    ASSUME NEW r, Holding(r), NEW chunk \in Seq(Alphabet)
    PROVE  /\ Holding(Eaten(r, chunk).redactor)
           /\ Eaten(r, chunk).emit \in Seq(Shown)
           /\ Flush(Eaten(r, chunk).redactor) \in Seq(Shown)
<1>1. CASE chunk = <<>>
  <2>1. Eaten(r, chunk).redactor = r /\ Eaten(r, chunk).emit = <<>>
      BY <1>1 DEF Eaten
  <2>2. Flush(r) \in Seq(Shown)
      BY FlushType DEF Holding
  <2> QED BY <2>1, <2>2
<1>2. CASE chunk # <<>>
  <2>1. Eaten(r, chunk) = Feed(r, chunk)
      BY <1>2 DEF Eaten
  <2>2. Holding(Feed(r, chunk).redactor)
      BY FeedHolds DEF Holding
  <2>3. Feed(r, chunk).emit \in Seq(Shown)
      BY FeedType DEF Holding
  <2>4. Flush(Feed(r, chunk).redactor) \in Seq(Shown)
      BY <2>2, FlushType DEF Holding
  <2> QED BY <2>1, <2>2, <2>3, <2>4
<1> QED BY <1>1, <1>2

LEMMA EatenSettled ==
    ASSUME NEW t, NEW r, NEW out, NEW p, Settled(t, r, out, p), NEW chunk \in Seq(Alphabet)
    PROVE  \E q : Settled(Cat(t, chunk), Eaten(r, chunk).redactor, Cat(out, Eaten(r, chunk).emit), q)
<1>1. t \in Seq(Alphabet) /\ out \in Seq(Shown)
  <2>1. Kept(t, r, p)
      BY DEF Settled
  <2>2. PICK a, d : KeptAs(t, r, p, a, d)
      BY <2>1, KeptFacts
  <2>3. out \in Seq(Shown)
      BY Flushed
  <2> QED BY <2>2, <2>3 DEF KeptAs
<1>2. CASE chunk = <<>>
  <2>1. Eaten(r, chunk).redactor = r /\ Eaten(r, chunk).emit = <<>>
      BY <1>2 DEF Eaten
  <2>2. Cat(t, chunk) = t /\ Cat(out, <<>>) = out
      BY <1>1, <1>2, CatEmpty
  <2> QED BY <2>1, <2>2
<1>3. CASE chunk # <<>>
  <2>1. Eaten(r, chunk) = Feed(r, chunk)
      BY <1>3 DEF Eaten
  <2> QED BY <2>1, Fed DEF Cat
<1> QED BY <1>2, <1>3

(* The cases of a turn.                                                    *)
Passed(f, s, d, s2) == d.content = NoContent /\ s2 = s

AfterFlush(f, s, d, s2) ==
    /\ d.content # NoContent /\ s.flushed /\ s2 \in States
    /\ s2.redactor = s.redactor /\ s2.flushed = s.flushed /\ s2.sent = s.sent
    /\ s2.got = [s.got EXCEPT ![d.index] = Cat(s.got[d.index], RedactComplete(d.content))]
    /\ s2.late = [s.late EXCEPT ![d.index] = Cat(s.late[d.index], d.content)]

Taken(f, s, d, s2) ==
    /\ d.content # NoContent /\ ~s.flushed /\ s2 \in States
    /\ s2.redactor = IF f THEN New ELSE Eaten(s.redactor, d.content).redactor
    /\ s2.flushed = f /\ s2.late = s.late
    /\ s2.sent = [s.sent EXCEPT ![d.index] = Cat(s.sent[d.index], d.content)]
    /\ s2.got = [s.got EXCEPT ![d.index] =
                    Cat(Cat(s.got[d.index], Eaten(s.redactor, d.content).emit),
                        IF f THEN Flush(Eaten(s.redactor, d.content).redactor) ELSE <<>>)]

LEMMA ContentType ==
    ASSUME NEW d \in Delta
    PROVE  /\ d.index \in Indices /\ d.finish \in BOOLEAN
           /\ d.content # NoContent => d.content \in Seq(Alphabet)
<1>1. d.index \in Indices /\ d.finish \in BOOLEAN /\ d.content \in Chunks \cup {NoContent}
    BY DEF Delta
<1>2. ASSUME d.content # NoContent PROVE d.content \in Seq(Alphabet)
  <2>1. d.content \in Chunks
      BY <1>1, <1>2
  <2>2. PICK n \in 0 .. MaxChunk : d.content \in [1 .. n -> Alphabet]
      BY <2>1 DEF Chunks
  <2>3. n \in Nat
      BY TextsAssumption
  <2> QED BY <2>2, <2>3, SeqDef
<1> QED BY <1>1, <1>2

LEMMA Turned ==
    ASSUME NEW f \in BOOLEAN, NEW s \in States, Holding(s.redactor), NEW d \in Delta
    PROVE  LET s2 == Turn(f, s, d) IN
           /\ Passed(f, s, d, s2) \/ AfterFlush(f, s, d, s2) \/ Taken(f, s, d, s2)
           /\ s2 \in States /\ Holding(s2.redactor)
<1> DEFINE i == d.index
           x == d.content
           s2 == Turn(f, s, d)
<1>1. /\ s.redactor \in Redactors /\ s.flushed \in BOOLEAN /\ s.sent \in [Indices -> Seq(Alphabet)]
      /\ s.late \in [Indices -> Seq(Alphabet)] /\ s.got \in [Indices -> Seq(Shown)]
      /\ i \in Indices
    BY ContentType DEF States
<1>2. CASE x = NoContent
  <2>1. s2 = s
      BY <1>2 DEF Turn
  <2> QED BY <1>2, <2>1 DEF Passed
<1>3. CASE x # NoContent /\ s.flushed
  <2>1. x \in Seq(Alphabet)
      BY <1>3, ContentType
  <2>2. RedactComplete(x) \in Seq(Shown)
      BY <2>1, CompleteType
  <2> DEFINE g == [s.got EXCEPT ![i] = Cat(s.got[i], RedactComplete(x))]
             l == [s.late EXCEPT ![i] = Cat(s.late[i], x)]
  <2>3. s2 = [s EXCEPT !.got = g, !.late = l]
      BY <1>3 DEF Turn, Cat
  <2>4. g \in [Indices -> Seq(Shown)] /\ l \in [Indices -> Seq(Alphabet)]
    <3>1. Cat(s.got[i], RedactComplete(x)) \in Seq(Shown) /\ Cat(s.late[i], x) \in Seq(Alphabet)
        BY <1>1, <2>1, <2>2, CatType
    <3> QED BY <1>1, <3>1
  <2> HIDE DEF g, l, s2
  <2>5. s2 \in States
      BY <1>1, <2>3, <2>4 DEF States
  <2>6. s2.redactor = s.redactor /\ s2.flushed = s.flushed /\ s2.sent = s.sent
        /\ s2.got = g /\ s2.late = l
      BY <2>3 DEF States
  <2>7. AfterFlush(f, s, d, s2)
      BY <1>3, <2>5, <2>6 DEF AfterFlush, g, l
  <2> QED BY <2>5, <2>6, <2>7 DEF s2
<1>4. CASE x # NoContent /\ ~s.flushed
  <2>1. x \in Seq(Alphabet)
      BY <1>4, ContentType
  <2> DEFINE e == Eaten(s.redactor, x)
             tail == IF f THEN Flush(e.redactor) ELSE <<>>
             r2 == IF f THEN New ELSE e.redactor
             g == [s.got EXCEPT ![i] = Cat(Cat(s.got[i], e.emit), tail)]
             t == [s.sent EXCEPT ![i] = Cat(s.sent[i], x)]
  <2>2. s2 = [s EXCEPT !.redactor = r2, !.flushed = f, !.sent = t, !.got = g]
      BY <1>4 DEF Turn, Cat, Eaten
  <2>3. Holding(e.redactor) /\ e.emit \in Seq(Shown) /\ Flush(e.redactor) \in Seq(Shown)
      BY <2>1, EatenFacts
  <2> HIDE DEF e
  <2>4. tail \in Seq(Shown)
      BY <2>3, CatEmpty
  <2>5. Holding(r2) /\ r2 \in Redactors
    <3>1. Holding(r2)
        BY <2>3, NewHolds
    <3> QED BY <3>1 DEF Holding
  <2> HIDE DEF tail, r2
  <2>6. g \in [Indices -> Seq(Shown)] /\ t \in [Indices -> Seq(Alphabet)]
    <3>1. Cat(s.got[i], e.emit) \in Seq(Shown) /\ Cat(s.sent[i], x) \in Seq(Alphabet)
        BY <1>1, <2>1, <2>3, CatType
    <3>2. Cat(Cat(s.got[i], e.emit), tail) \in Seq(Shown)
        BY <2>4, <3>1, CatType
    <3> QED BY <1>1, <3>1, <3>2
  <2> HIDE DEF g, t, s2
  <2>7. s2 \in States
      BY <1>1, <2>2, <2>5, <2>6 DEF States
  <2>8. s2.redactor = r2 /\ s2.flushed = f /\ s2.sent = t /\ s2.got = g /\ s2.late = s.late
      BY <2>2 DEF States
  <2>9. Taken(f, s, d, s2)
      BY <1>4, <2>7, <2>8 DEF Taken, g, t, r2, tail, e
  <2> QED BY <2>5, <2>7, <2>8, <2>9 DEF s2
<1> QED BY <1>1, <1>2, <1>3, <1>4

(* What came of a choice that came alone is settled until the flush.       *)
AloneIn(texts, c) == \A d \in Indices \ {c} : texts[d] = <<>>
Faithful(s) ==
    ~s.flushed => \A c \in Indices : AloneIn(s.sent, c) =>
                     \E p : Settled(s.sent[c], s.redactor, s.got[c], p)

LEMMA TurnFaithful ==
    ASSUME NEW f \in BOOLEAN, NEW s \in States, Holding(s.redactor), Faithful(s), NEW d \in Delta
    PROVE  Faithful(Turn(f, s, d))
<1> DEFINE s2 == Turn(f, s, d)
           i == d.index
           x == d.content
<1> SUFFICES Faithful(s2)
    OBVIOUS
<1>1. Passed(f, s, d, s2) \/ AfterFlush(f, s, d, s2) \/ Taken(f, s, d, s2)
    BY Turned
<1> HIDE DEF s2
<1>2. CASE Passed(f, s, d, s2)
    BY <1>2 DEF Passed
<1>3. CASE AfterFlush(f, s, d, s2)
    BY <1>3 DEF AfterFlush, Faithful
<1>4. CASE Taken(f, s, d, s2)
  <2>1. CASE f
      BY <1>4, <2>1 DEF Taken, Faithful
  <2>2. CASE ~f
    <3> DEFINE e == Eaten(s.redactor, x)
    <3>1. x \in Seq(Alphabet) /\ i \in Indices
        BY <1>4, ContentType DEF Taken
    <3>2. /\ s.sent \in [Indices -> Seq(Alphabet)] /\ s.got \in [Indices -> Seq(Shown)]
          /\ s.redactor \in Redactors
        BY DEF States
    <3>3. e.emit \in Seq(Shown)
        BY <3>1, EatenFacts
    <3> HIDE DEF e, i, x
    <3>4. /\ s2.redactor = e.redactor /\ ~s.flushed
          /\ s2.sent = [s.sent EXCEPT ![i] = Cat(s.sent[i], x)]
          /\ s2.got = [s.got EXCEPT ![i] = Cat(Cat(s.got[i], e.emit), <<>>)]
        BY <1>4, <2>2 DEF Taken, e, i, x
    <3>5. Cat(s.got[i], e.emit) \in Seq(Shown)
        BY <3>1, <3>2, <3>3, CatType
    <3>6. Cat(Cat(s.got[i], e.emit), <<>>) = Cat(s.got[i], e.emit)
        BY <3>5, CatEmpty
    <3>7. /\ s2.sent[i] = Cat(s.sent[i], x) /\ s2.got[i] = Cat(s.got[i], e.emit)
          /\ \A c \in Indices \ {i} : s2.sent[c] = s.sent[c] /\ s2.got[c] = s.got[c]
        BY <3>1, <3>2, <3>4, <3>6
    <3>8. ASSUME NEW c \in Indices, AloneIn(s2.sent, c)
          PROVE  \E p : Settled(s2.sent[c], s2.redactor, s2.got[c], p)
      <4>1. CASE c = i
        <5>1. AloneIn(s.sent, i)
            BY <3>7, <3>8, <4>1 DEF AloneIn
        <5>2. PICK p : Settled(s.sent[i], s.redactor, s.got[i], p)
            BY <3>1, <3>4, <5>1 DEF Faithful
        <5>3. \E q : Settled(Cat(s.sent[i], x), e.redactor, Cat(s.got[i], e.emit), q)
            BY <3>1, <5>2, EatenSettled DEF e
        <5> QED BY <3>4, <3>7, <4>1, <5>3
      <4>2. CASE c # i
        <5>1. s2.sent[i] = <<>>
            BY <3>1, <3>8, <4>2 DEF AloneIn
        <5>2. s.sent[i] \in Seq(Alphabet)
            BY <3>1, <3>2
        <5>3. x = <<>> /\ s.sent[i] = <<>>
          <6>1. s.sent[i] \o x = <<>>
              BY <3>7, <5>1 DEF Cat
          <6>2. Len(s.sent[i] \o x) = Len(s.sent[i]) + Len(x)
              BY <3>1, <5>2, ConcatProperties
          <6>3. Len(s.sent[i]) = 0 /\ Len(x) = 0
            <7>1. Len(s.sent[i]) \in Nat /\ Len(x) \in Nat
                BY <3>1, <5>2
            <7>2. Len(s.sent[i]) + Len(x) = 0
                BY <6>1, <6>2
            <7> QED BY <7>1, <7>2
          <6> QED BY <3>1, <5>2, <6>3, EmptySeq
        <5>4. e.redactor = s.redactor
            BY <5>3 DEF e, Eaten
        <5>5. \A k \in Indices : s2.sent[k] = s.sent[k]
            BY <3>7, <5>1, <5>3
        <5>6. AloneIn(s.sent, c)
            BY <3>8, <5>5 DEF AloneIn
        <5>7. \E p : Settled(s.sent[c], s.redactor, s.got[c], p)
            BY <3>4, <5>6 DEF Faithful
        <5> QED BY <3>4, <3>7, <4>2, <5>4, <5>7
      <4> QED BY <4>1, <4>2
    <3> QED BY <3>8 DEF Faithful
  <2> QED BY <2>1, <2>2
<1> QED BY <1>1, <1>2, <1>3, <1>4

----------------------------------------------------------------------------
(* A FRAME.  Turn after turn, over all of its choices.                     *)
Now == [redactor |-> redactor, flushed |-> flushed, sent |-> sent, late |-> late, got |-> got]

TurnStep(g, f, deltas, k) == IF k = 0 THEN Now ELSE Turn(f, g[k - 1], deltas[k])

LEMMA TurnsExist ==
    ASSUME NEW f, NEW deltas, NEW b \in Nat
    PROVE  \E g : g = [k \in 0 .. b |-> TurnStep(g, f, deltas, k)]
<1> DEFINE G == {n \in 0 .. b : \E g : g = [k \in 0 .. n |-> TurnStep(g, f, deltas, k)]}
<1>1. 0 \in G
  <2> DEFINE g == [k \in 0 .. 0 |-> Now]
  <2>1. \A k \in 0 .. 0 : k = 0
      OBVIOUS
  <2>2. g = [k \in 0 .. 0 |-> TurnStep(g, f, deltas, k)]
      BY <2>1 DEF TurnStep
  <2> HIDE DEF g
  <2> QED BY <2>2
<1>2. ASSUME NEW n \in 0 + 1 .. b, n - 1 \in G
      PROVE  n \in G
  <2>1. PICK g : g = [k \in 0 .. n - 1 |-> TurnStep(g, f, deltas, k)]
      BY <1>2
  <2> DEFINE h == [k \in 0 .. n |-> IF k = n THEN TurnStep(g, f, deltas, n) ELSE g[k]]
  <2>2. \A k \in 0 .. n : h[k] = IF k = n THEN TurnStep(g, f, deltas, n) ELSE g[k]
      OBVIOUS
  <2>3. h = [k \in 0 .. n |-> h[k]]
      OBVIOUS
  <2> HIDE DEF h
  <2>4. ASSUME NEW k \in 0 .. n PROVE h[k] = TurnStep(h, f, deltas, k)
    <3>1. TurnStep(h, f, deltas, k) = TurnStep(g, f, deltas, k)
      <4>1. CASE k = 0
          BY <4>1 DEF TurnStep
      <4>2. CASE k # 0
        <5>1. k - 1 \in 0 .. n /\ k - 1 # n
            BY <4>2
        <5>2. h[k - 1] = g[k - 1]
            BY <2>2, <5>1
        <5> QED BY <4>2, <5>2 DEF TurnStep
      <4> QED BY <4>1, <4>2
    <3>2. CASE k = n
        BY <2>2, <3>1, <3>2
    <3>3. CASE k # n
      <4>1. k \in 0 .. n - 1
          BY <3>3
      <4>2. g[k] = TurnStep(g, f, deltas, k)
          BY <2>1, <4>1
      <4> QED BY <2>2, <3>1, <3>3, <4>2
    <3> QED BY <3>2, <3>3
  <2>5. h = [k \in 0 .. n |-> TurnStep(h, f, deltas, k)]
      BY <2>3, <2>4
  <2> QED BY <2>5
<1>3. \A n \in 0 .. b : n \in G
  <2> HIDE DEF G
  <2> QED BY <1>1, <1>2, Upward
<1>4. b \in G
    BY <1>3
<1> QED BY <1>4

LEMMA FrameTurns ==
    ASSUME NEW deltas, Len(deltas) \in Nat, Frame(deltas)
    PROVE  \E g : /\ g[0] = Now
                  /\ \A k \in 1 .. Len(deltas) :
                        g[k] = Turn(Finishes(deltas), g[k - 1], deltas[k])
                  /\ Now' = [redactor |-> g[Len(deltas)].redactor,
                             flushed |-> g[Len(deltas)].flushed,
                             sent |-> g[Len(deltas)].sent, late |-> g[Len(deltas)].late,
                             got |-> g[Len(deltas)].got]
<1> DEFINE f == Finishes(deltas)
           n == Len(deltas)
           g == CHOOSE g : g = [k \in 0 .. n |-> TurnStep(g, f, deltas, k)]
<1>1. g = [k \in 0 .. n |-> TurnStep(g, f, deltas, k)]
  <2> HIDE DEF f
  <2> QED BY TurnsExist
<1>2. /\ redactor' = g[n].redactor /\ flushed' = g[n].flushed
      /\ sent' = g[n].sent /\ late' = g[n].late /\ got' = g[n].got
    BY DEF Frame, TurnStep, Now
<1> HIDE DEF f, g
<1>3. \A k \in 0 .. n : g[k] = TurnStep(g, f, deltas, k)
    BY <1>1
<1>4. g[0] = Now
    BY <1>3 DEF TurnStep
<1>5. \A k \in 1 .. n : g[k] = Turn(f, g[k - 1], deltas[k])
    BY <1>3 DEF TurnStep
<1> QED BY <1>2, <1>4, <1>5 DEF f, Now

----------------------------------------------------------------------------
(* THE INVARIANT.                                                          *)
Core(s) == s \in States /\ Holding(s.redactor) /\ Faithful(s)

Rest ==
    /\ pc \in {"connecting", "open", "ended", "dropped", "refused"}
    /\ done \in BOOLEAN /\ last \in Indices \cup {0} /\ finished \subseteq Indices

Inv == Core(Now) /\ Rest

LEMMA DeltasType ==
    ASSUME NEW n \in 1 .. Cardinality(Indices), NEW deltas \in [1 .. n -> Delta]
    PROVE  /\ n \in Nat /\ Len(deltas) = n /\ DOMAIN deltas = 1 .. n /\ 1 \in 1 .. n
           /\ \A k \in 1 .. n : deltas[k] \in Delta
<1>1. Cardinality(Indices) \in Nat
    BY IndicesAssumption, FS_CardinalityType
<1>2. n \in Nat /\ 1 \in 1 .. n
    BY <1>1
<1>3. deltas \in Seq(Delta)
    BY <1>2, SeqDef
<1>4. DOMAIN deltas = 1 .. n /\ \A k \in 1 .. n : deltas[k] \in Delta
    OBVIOUS
<1>5. Len(deltas) = n
    BY <1>2, <1>3, <1>4, LenProperties
<1> QED BY <1>2, <1>4, <1>5

LEMMA FrameKeeps ==
    ASSUME Core(Now), NEW n \in 1 .. Cardinality(Indices), NEW deltas \in [1 .. n -> Delta],
           Frame(deltas)
    PROVE  Core(Now')
<1>1. n \in Nat /\ Len(deltas) = n /\ \A k \in 1 .. n : deltas[k] \in Delta
    BY DeltasType
<1> DEFINE f == Finishes(deltas)
<1>2. f \in BOOLEAN
    BY DEF Finishes
<1>3. PICK g : /\ g[0] = Now
               /\ \A k \in 1 .. n : g[k] = Turn(f, g[k - 1], deltas[k])
               /\ Now' = [redactor |-> g[n].redactor, flushed |-> g[n].flushed, sent |-> g[n].sent,
                          late |-> g[n].late, got |-> g[n].got]
    BY <1>1, FrameTurns
<1> HIDE DEF f
<1> DEFINE G == {k \in 0 .. n : Core(g[k])}
<1>4. 0 \in G
    BY <1>1, <1>3
<1>5. ASSUME NEW k \in 0 + 1 .. n, k - 1 \in G PROVE k \in G
  <2>1. k \in 1 .. n /\ k \in 0 .. n
      BY <1>1
  <2>2. g[k] = Turn(f, g[k - 1], deltas[k]) /\ deltas[k] \in Delta
      BY <1>1, <1>3, <2>1
  <2>3. g[k - 1] \in States /\ Holding(g[k - 1].redactor) /\ Faithful(g[k - 1])
      BY <1>5 DEF Core
  <2>4. Core(g[k])
    <3>1. g[k] \in States /\ Holding(g[k].redactor)
        BY <1>2, <2>2, <2>3, Turned
    <3>2. Faithful(g[k])
        BY <1>2, <2>2, <2>3, TurnFaithful
    <3> QED BY <3>1, <3>2 DEF Core
  <2> QED BY <2>1, <2>4
<1>6. \A k \in 0 .. n : k \in G
  <2> HIDE DEF G
  <2> QED BY <1>1, <1>4, <1>5, Upward
<1>7. Core(g[n])
    BY <1>1, <1>6
<1>8. Now' = g[n]
    BY <1>3, <1>7 DEF Core, States
<1> QED BY <1>7, <1>8

LEMMA FlushKeeps ==
    ASSUME Core(Now), FlushTail, UNCHANGED <<sent, late>>
    PROVE  Core(Now')
<1>1. /\ flushed' = TRUE /\ redactor' = New /\ sent' = sent /\ late' = late
      /\ got' = IF flushed THEN got ELSE [got EXCEPT ![last] = Cat(got[last], Flush(redactor))]
    BY DEF FlushTail, Cat
<1>2. /\ redactor \in Redactors /\ got \in [Indices -> Seq(Shown)]
      /\ sent \in [Indices -> Seq(Alphabet)] /\ late \in [Indices -> Seq(Alphabet)]
    BY DEF Core, Now, States
<1>3. got' \in [Indices -> Seq(Shown)]
  <2>1. Flush(redactor) \in Seq(Shown)
      BY <1>2, FlushType
  <2>2. last \in Indices => Cat(got[last], Flush(redactor)) \in Seq(Shown)
      BY <1>2, <2>1, CatType
  <2> QED BY <1>1, <1>2, <2>2
<1>4. Now' = [redactor |-> New, flushed |-> TRUE, sent |-> sent, late |-> late, got |-> got']
    BY <1>1 DEF Now
<1>5. Holding(New) /\ New \in Redactors
    BY NewHolds DEF Holding
<1> HIDE DEF Now
<1>6. Now' \in States
    BY <1>2, <1>3, <1>4, <1>5 DEF States
<1>7. Now'.flushed /\ Now'.redactor = New
    BY <1>4
<1> QED BY <1>5, <1>6, <1>7 DEF Core, Faithful

LEMMA TextType == Texts \subseteq Seq(Alphabet)
<1> SUFFICES ASSUME NEW t \in Texts PROVE t \in Seq(Alphabet)
    OBVIOUS
<1>1. PICK n \in 0 .. MaxText : t \in [1 .. n -> Alphabet]
    BY DEF Texts
<1>2. n \in Nat
    BY TextsAssumption
<1> QED BY <1>1, <1>2, SeqDef

LEMMA UnstreamedTexts ==
    ASSUME Unstreamed
    PROVE  \E texts \in [Indices -> Seq(Alphabet)] :
              sent' = texts /\ got' = [c \in Indices |-> RedactComplete(texts[c])]
<1>1. PICK contents \in [Indices -> Texts \cup {NoContent}] :
          /\ sent' = [c \in Indices |-> TextOf(contents[c])]
          /\ got' = [c \in Indices |-> RedactComplete(sent'[c])]
    BY DEF Unstreamed
<1>2. \A x \in Texts \cup {NoContent} : TextOf(x) \in Seq(Alphabet)
  <2>1. <<>> \in Seq(Alphabet)
      BY EmptySeq
  <2> QED BY <2>1, TextType DEF TextOf
<1>3. sent' \in [Indices -> Seq(Alphabet)]
    BY <1>1, <1>2
<1> QED BY <1>1, <1>3

LEMMA UnstreamedKeeps ==
    ASSUME Core(Now), Unstreamed
    PROVE  Core(Now')
<1>1. PICK texts \in [Indices -> Seq(Alphabet)] :
          sent' = texts /\ got' = [c \in Indices |-> RedactComplete(texts[c])]
    BY UnstreamedTexts
<1>2. flushed' = TRUE /\ redactor' = redactor /\ late' = late
    BY DEF Unstreamed
<1>3. texts \in [Indices -> Seq(Alphabet)]
    OBVIOUS
<1>4. got' \in [Indices -> Seq(Shown)]
    BY <1>1, <1>3, CompleteType
<1>5. redactor \in Redactors /\ late \in [Indices -> Seq(Alphabet)] /\ Holding(redactor)
    BY DEF Core, Now, States
<1>6. Now' = [redactor |-> redactor, flushed |-> TRUE, sent |-> texts, late |-> late, got |-> got']
    BY <1>1, <1>2 DEF Now
<1> HIDE DEF Now
<1>7. Now' \in States
    BY <1>3, <1>4, <1>5, <1>6 DEF States
<1>8. Now'.flushed /\ Now'.redactor = redactor
    BY <1>6
<1> QED BY <1>5, <1>7, <1>8 DEF Core, Faithful

LEMMA InvInit == Init => Inv
<1> SUFFICES ASSUME Init PROVE Inv
    OBVIOUS
<1> DEFINE e == [c \in Indices |-> <<>>]
<1>1. Now = [redactor |-> New, flushed |-> FALSE, sent |-> e, late |-> e, got |-> e]
    BY DEF Init, Now
<1>2. e \in [Indices -> Seq(Alphabet)] /\ e \in [Indices -> Seq(Shown)]
    BY CatEmpty
<1>3. \A c \in Indices : e[c] = <<>>
    OBVIOUS
<1> HIDE DEF e
<1>4. Holding(New) /\ New \in Redactors
    BY NewHolds DEF Holding
<1>5. Now \in States
    BY <1>1, <1>2, <1>4 DEF States
<1>6. Now.redactor = New /\ Now.sent = e /\ Now.got = e
    BY <1>1
<1> HIDE DEF Now
<1>7. Faithful(Now)
    BY <1>3, <1>6, SettledFirst DEF Faithful
<1>8. Rest
    BY DEF Init, Rest
<1> QED BY <1>4, <1>5, <1>6, <1>7, <1>8 DEF Inv, Core

LEMMA InvNext == Inv /\ [Next]_vars => Inv'
<1> SUFFICES ASSUME Inv, [Next]_vars PROVE Core(Now') /\ Rest'
    BY DEF Inv
<1>1. Core(Now) /\ Rest
    BY DEF Inv
<1>2. ASSUME UNCHANGED <<redactor, flushed, sent, late, got>> PROVE Core(Now')
  <2>1. Now' = Now
      BY <1>2 DEF Now
  <2> QED BY <1>1, <2>1
<1>3. CASE Connect \/ UpstreamError \/ UnstreamedFails \/ Usage \/ Drop
  <2>1. UNCHANGED <<redactor, flushed, sent, late, got>>
      BY <1>3 DEF Connect, UpstreamError, UnstreamedFails, Usage, Drop
  <2>2. Rest'
      BY <1>1, <1>3 DEF Connect, UpstreamError, UnstreamedFails, Usage, Drop, Rest
  <2> QED BY <1>2, <2>1, <2>2
<1>4. CASE Unstreamed
  <2>1. Rest'
      BY <1>1, <1>4 DEF Unstreamed, Rest
  <2> QED BY <1>1, <1>4, <2>1, UnstreamedKeeps
<1>5. CASE Done \/ Close
  <2>1. FlushTail /\ UNCHANGED <<sent, late>>
      BY <1>5 DEF Done, Close
  <2>2. Rest'
      BY <1>1, <1>5 DEF Done, Close, Rest
  <2> QED BY <1>1, <2>1, <2>2, FlushKeeps
<1>6. ASSUME NEW n \in 1 .. Cardinality(Indices), NEW deltas \in [1 .. n -> Delta], Frame(deltas)
      PROVE  Core(Now') /\ Rest'
  <2>1. DOMAIN deltas = 1 .. n /\ 1 \in 1 .. n /\ \A k \in 1 .. n : deltas[k] \in Delta
      BY DeltasType
  <2>2. \A k \in 1 .. n : deltas[k].index \in Indices
      BY <2>1, ContentType
  <2>3. /\ last' = deltas[1].index /\ pc' = pc /\ done' = done
        /\ finished' = finished \cup {deltas[k].index : k \in {j \in DOMAIN deltas : deltas[j].finish}}
      BY <1>6 DEF Frame
  <2>4. Rest'
      BY <1>1, <2>1, <2>2, <2>3 DEF Rest
  <2> QED BY <1>1, <1>6, <2>4, FrameKeeps
<1>7. CASE UNCHANGED vars
  <2>1. UNCHANGED <<redactor, flushed, sent, late, got>> /\ Rest'
      BY <1>1, <1>7 DEF vars, Rest
  <2> QED BY <1>2, <2>1
<1> QED BY <1>3, <1>4, <1>5, <1>6, <1>7 DEF Next

LEMMA InvHolds == Spec => []Inv
<1> QED BY InvInit, InvNext, PTL DEF Spec

----------------------------------------------------------------------------
(* WHAT THE CLIENT IS PROMISED.                                            *)

(* llm_gateway.py only ever holds and sends text, whatever the provider    *)
(* sends: the redactor keeps strings, of which the lookbehind is never     *)
(* longer than LOOKBEHIND_CONTEXT, and every choice gets text and marks.   *)
THEOREM StreamTypes == Spec => []TypeOK
<1>1. Inv => TypeOK
  <2> SUFFICES ASSUME Inv PROVE TypeOK
      OBVIOUS
  <2>1. Now \in States /\ Holding(redactor) /\ Rest
      BY DEF Inv, Core, Now
  <2>2. /\ redactor \in Redactors /\ flushed \in BOOLEAN /\ sent \in [Indices -> Seq(Alphabet)]
        /\ late \in [Indices -> Seq(Alphabet)] /\ got \in [Indices -> Seq(Shown)]
      BY <2>1 DEF States, Now
  <2>3. Len(redactor.context) <= Lookbehind
      BY <2>1 DEF Holding
  <2> QED BY <2>1, <2>2, <2>3 DEF TypeOK, Rest, Redactors, Shown
<1> QED BY <1>1, InvHolds, PTL

(* However the provider cuts the text of a choice into chunks, and wherever*)
(* the stream breaks off, what redact_sse_stream has sent of a choice that *)
(* came alone and what it would flush is the one-pass redaction of all that*)
(* arrived: holdback, pull-back and lookbehind together lose and leak none.*)
THEOREM StreamRedactsAsWhole == Spec => []RedactedAsWhole
<1>1. Inv => RedactedAsWhole
  <2> SUFFICES ASSUME Inv, ~flushed, NEW c \in Indices, Alone(c)
               PROVE  got[c] \o Flush(redactor) = RedactComplete(sent[c])
      BY DEF RedactedAsWhole
  <2>1. Faithful(Now)
      BY DEF Inv, Core
  <2>2. AloneIn(sent, c)
      BY DEF Alone, AloneIn
  <2>3. PICK p : Settled(sent[c], redactor, got[c], p)
      BY <2>1, <2>2 DEF Faithful, Now
  <2> QED BY <2>3, Flushed DEF Cat
<1> QED BY <1>1, InvHolds, PTL

(* feed() holds more than MAX_HOLDBACK only of a match that starts where   *)
(* what is held starts, and that reaches into the last MAX_HOLDBACK of it. *)
THEOREM HoldbackIsBounded == Spec => []HeldForAMatch
<1>1. Inv => HeldForAMatch
  <2> SUFFICES ASSUME Inv PROVE HeldForAMatch
      OBVIOUS
  <2>1. HoldsAMatch(redactor)
      BY DEF Inv, Core, Now, Holding
  <2> QED BY <2>1 DEF HoldsAMatch, HeldForAMatch, Whole
<1> QED BY <1>1, InvHolds, PTL

(* MAX_BUFFER (redactor.py:120-129): however long the response, what feed()*)
(* keeps of it stays below the hold-back plus the length of one match.     *)
WithinBuffer == Len(redactor.buffer) < MaxHoldback + MaxMatch
THEOREM BufferIsBounded == Spec => []WithinBuffer
<1>1. Inv => WithinBuffer
  <2> SUFFICES ASSUME Inv PROVE WithinBuffer
      OBVIOUS
  <2> DEFINE a == Len(redactor.context)
             b == Len(redactor.buffer)
             w == Whole(redactor)
  <2>1. HoldsAMatch(redactor) /\ redactor \in Redactors
      BY DEF Inv, Core, Now, Holding
  <2>2. redactor.context \in Seq(Alphabet) /\ redactor.buffer \in Seq(Alphabet)
      BY <2>1 DEF Redactors
  <2>3. w \in Seq(Alphabet) /\ Len(w) = a + b
      BY <2>2, WholeFacts DEF Whole
  <2>4. a \in Nat /\ b \in Nat /\ MaxHoldback \in Nat
      BY <2>2, BoundsAssumption
  <2>5. CASE b <= MaxHoldback
      BY <2>4, <2>5 DEF WithinBuffer, MaxMatch
  <2>6. CASE b > MaxHoldback
    <3>1. PICK m \in Matches(w, a + 1) : m.first = a + 1 /\ m.last > a + b - MaxHoldback
        BY <2>1, <2>6 DEF HoldsAMatch
    <3> HIDE DEF a, b, w
    <3>2. a + 1 \in 1 .. Len(w) + 1 /\ a + 1 \in Nat /\ Len(w) \in Nat
        BY <2>3, <2>4
    <3>3. IsScan(w, a + 1, Len(w), Matches(w, a + 1))
        BY <2>3, <3>2, MatchesScan
    <3>4. m.last = MatchEnd(w, a + 1) /\ a + 1 \in 1 .. Len(w) /\ m.last \in Nat
      <4>1. m.first \in a + 1 .. Len(w) /\ m.last = MatchEnd(w, m.first) /\ m.last \in Nat
          BY <3>2, <3>3, ScanFacts
      <4> QED BY <2>4, <3>1, <3>2, <4>1
    <3>5. MatchEnd(w, a + 1) = 0 \/ MatchEnd(w, a + 1) \in (a + 1) + 1 .. (a + 1) + 4
        BY <2>3, <3>4, MatchRange
    <3>6. m.last <= a + 5
        BY <2>4, <3>4, <3>5
    <3>7. b < MaxHoldback + 5
      <4>1. m.last > (a + b) - MaxHoldback
          BY <2>4, <3>1
      <4> QED BY <2>4, <3>4, <3>6, <4>1
    <3> QED BY <3>7 DEF WithinBuffer, MaxMatch, b
  <2> QED BY <2>4, <2>5, <2>6
<1> QED BY <1>1, InvHolds, PTL

(* When the one choice was flushed, the provider has ended it, by a        *)
(* finish_reason, [DONE] or the end of the stream, so that at most one late*)
(* chunk comes after.                                                      *)
Ends ==
    /\ Inv
    /\ pc = "connecting" => ~flushed
    /\ pc = "ended" => flushed
    /\ pc = "open" /\ flushed => done \/ 0 \in finished
    /\ ~flushed => late[0] = <<>>
    /\ flushed => got[0] = Cat(RedactComplete(sent[0]), RedactComplete(late[0]))

LEMMA NothingRedacted == RedactComplete(<<>>) = <<>>
<1>1. <<>> \in Seq(Alphabet) /\ Len(<<>>) = 0 /\ 0 \in Nat
    OBVIOUS
<1> DEFINE t == <<>>
           M == Matches(t, 1)
<1>2. PICK f : IsOut(f, t, EndingBy(M, 0), 0, 0) /\ RedactRange(t, 0, 0, M) = f[0]
  <2> HIDE DEF t, M
  <2> QED BY <1>1, OutUnfolds
<1>3. RedactRange(t, 0, 0, M) = <<>>
    BY <1>2 DEF IsOut
<1> QED BY <1>1, <1>3 DEF RedactComplete

LEMMA OneFlushed ==
    ASSUME Indices = {0}, Inv, ~flushed
    PROVE  /\ Cat(got[0], Flush(redactor)) = RedactComplete(sent[0])
           /\ \A x \in Seq(Alphabet) :
                 Cat(Cat(got[0], Eaten(redactor, x).emit), Flush(Eaten(redactor, x).redactor))
                    = RedactComplete(Cat(sent[0], x))
<1>1. Faithful(Now) /\ 0 \in Indices /\ AloneIn(sent, 0)
    BY DEF Inv, Core, AloneIn
<1>2. PICK p : Settled(sent[0], redactor, got[0], p)
    BY <1>1 DEF Faithful, Now
<1>3. Cat(got[0], Flush(redactor)) = RedactComplete(sent[0])
    BY <1>2, Flushed
<1>4. ASSUME NEW x \in Seq(Alphabet)
      PROVE  Cat(Cat(got[0], Eaten(redactor, x).emit), Flush(Eaten(redactor, x).redactor))
                = RedactComplete(Cat(sent[0], x))
  <2>1. PICK q : Settled(Cat(sent[0], x), Eaten(redactor, x).redactor,
                         Cat(got[0], Eaten(redactor, x).emit), q)
      BY <1>2, EatenSettled
  <2> QED BY <2>1, Flushed
<1> QED BY <1>3, <1>4

LEMMA FrameEnds ==
    ASSUME Indices = {0}, Ends, NEW n \in 1 .. Cardinality(Indices),
           NEW deltas \in [1 .. n -> Delta], Frame(deltas), Inv'
    PROVE  Ends'
<1>1. /\ Inv
      /\ ~flushed => late[0] = <<>>
      /\ pc = "open" /\ flushed => done \/ 0 \in finished
      /\ flushed => got[0] = Cat(RedactComplete(sent[0]), RedactComplete(late[0]))
    BY DEF Ends
<1>2. n = 1 /\ Len(deltas) = 1 /\ DOMAIN deltas = {1} /\ deltas[1] \in Delta
  <2>1. Cardinality(Indices) = 1
      BY FS_Singleton
  <2>2. n = 1 /\ 1 .. n = {1} /\ 1 \in 1 .. n
      BY <2>1
  <2> QED BY <2>2, DeltasType
<1> DEFINE d == deltas[1]
           x == d.content
           f == Finishes(deltas)
           s2 == Turn(f, Now, d)
<1>3. d \in Delta /\ d.index = 0 /\ d.finish \in BOOLEAN /\ (x # NoContent => x \in Seq(Alphabet))
  <2>1. d \in Delta
      BY <1>2
  <2> HIDE DEF d
  <2>2. d.index \in Indices /\ d.finish \in BOOLEAN /\ (x # NoContent => x \in Seq(Alphabet))
      BY <2>1, ContentType
  <2> QED BY <2>1, <2>2
<1>4. f \in BOOLEAN /\ (f <=> d.finish)
    BY <1>2, <1>3 DEF Finishes
<1>5. /\ pc = "open" /\ pc' = pc /\ done' = done
      /\ finished \subseteq finished' /\ (d.finish => 0 \in finished')
      /\ x # NoContent /\ (done \/ 0 \in finished) => late[0] = <<>>
  <2>1. /\ pc = "open" /\ pc' = pc /\ done' = done
        /\ finished' = finished \cup {deltas[k].index : k \in {j \in DOMAIN deltas : deltas[j].finish}}
      BY DEF Frame
  <2>2. x # NoContent /\ (done \/ d.index \in finished) => late[d.index] = <<>>
      BY <1>2 DEF Frame
  <2> QED BY <1>2, <1>3, <2>1, <2>2
<1>6. /\ redactor' = s2.redactor /\ flushed' = s2.flushed /\ sent' = s2.sent
      /\ late' = s2.late /\ got' = s2.got
  <2>1. PICK g : /\ g[0] = Now
                 /\ \A k \in 1 .. Len(deltas) : g[k] = Turn(f, g[k - 1], deltas[k])
                 /\ Now' = [redactor |-> g[Len(deltas)].redactor,
                            flushed |-> g[Len(deltas)].flushed,
                            sent |-> g[Len(deltas)].sent, late |-> g[Len(deltas)].late,
                            got |-> g[Len(deltas)].got]
      BY <1>2, FrameTurns
  <2>2. g[1] = s2
    <3>1. 1 \in 1 .. Len(deltas) /\ 1 - 1 = 0
        BY <1>2
    <3> QED BY <2>1, <3>1
  <2>3. Now' = [redactor |-> s2.redactor, flushed |-> s2.flushed, sent |-> s2.sent,
                late |-> s2.late, got |-> s2.got]
      BY <1>2, <2>1, <2>2
  <2> HIDE DEF s2
  <2> QED BY <2>3 DEF Now
<1>7. Now \in States /\ Holding(Now.redactor)
    BY <1>1 DEF Inv, Core
<1>8. Passed(f, Now, d, s2) \/ AfterFlush(f, Now, d, s2) \/ Taken(f, Now, d, s2)
  <2> HIDE DEF f, d
  <2> QED BY <1>3, <1>4, <1>7, Turned
<1>9. /\ Now.redactor = redactor /\ Now.flushed = flushed /\ Now.sent = sent
      /\ Now.late = late /\ Now.got = got
    BY DEF Now
<1>10. /\ sent \in [{0} -> Seq(Alphabet)] /\ late \in [{0} -> Seq(Alphabet)]
       /\ got \in [{0} -> Seq(Shown)]
    BY <1>7, <1>9 DEF States
<1> HIDE DEF s2, f, x, d, Now
<1>11. CASE Passed(f, Now, d, s2)
  <2>1. s2.flushed = flushed /\ s2.sent = sent /\ s2.late = late /\ s2.got = got
      BY <1>9, <1>11 DEF Passed
  <2>2. flushed' = flushed /\ sent' = sent /\ late' = late /\ got' = got
      BY <1>6, <2>1
  <2> QED BY <1>1, <1>5, <2>2 DEF Ends
<1>12. CASE AfterFlush(f, Now, d, s2)
  <2>1. /\ x # NoContent /\ flushed /\ flushed' = flushed /\ sent' = sent
        /\ got' = [got EXCEPT ![0] = Cat(got[0], RedactComplete(x))]
        /\ late' = [late EXCEPT ![0] = Cat(late[0], x)]
      BY <1>3, <1>6, <1>9, <1>12 DEF AfterFlush, x
  <2>2. late[0] = <<>> /\ x \in Seq(Alphabet) /\ (done \/ 0 \in finished)
      BY <1>1, <1>3, <1>5, <2>1
  <2>3. got'[0] = Cat(got[0], RedactComplete(x)) /\ late'[0] = Cat(late[0], x)
      BY <1>10, <2>1
  <2>4. late'[0] = x
      BY <2>2, <2>3, CatEmpty
  <2>5. got[0] = RedactComplete(sent[0])
    <3>1. RedactComplete(sent[0]) \in Seq(Shown)
      <4>1. sent[0] \in Seq(Alphabet)
          BY <1>10
      <4> QED BY <4>1, CompleteType
    <3>2. got[0] = Cat(RedactComplete(sent[0]), <<>>)
        BY <1>1, <2>1, <2>2, NothingRedacted
    <3> QED BY <3>1, <3>2, CatEmpty
  <2>6. got'[0] = Cat(RedactComplete(sent'[0]), RedactComplete(late'[0]))
      BY <2>1, <2>3, <2>4, <2>5
  <2> QED BY <1>5, <2>1, <2>2, <2>6 DEF Ends
<1>13. CASE Taken(f, Now, d, s2)
  <2>1. /\ x # NoContent /\ ~flushed /\ flushed' = f /\ late' = late
        /\ sent' = [sent EXCEPT ![0] = Cat(sent[0], x)]
        /\ got' = [got EXCEPT ![0] = Cat(Cat(got[0], Eaten(redactor, x).emit),
                                         IF f THEN Flush(Eaten(redactor, x).redactor) ELSE <<>>)]
      BY <1>3, <1>6, <1>9, <1>13 DEF Taken, x
  <2>2. late'[0] = <<>> /\ x \in Seq(Alphabet)
      BY <1>1, <1>3, <2>1
  <2>3. sent'[0] = Cat(sent[0], x)
      BY <1>10, <2>1
  <2>4. CASE f
    <3>1. got'[0] = Cat(Cat(got[0], Eaten(redactor, x).emit), Flush(Eaten(redactor, x).redactor))
        BY <1>10, <2>1, <2>4
    <3>2. got'[0] = RedactComplete(sent'[0])
        BY <1>1, <2>1, <2>2, <2>3, <3>1, OneFlushed
    <3>3. RedactComplete(sent'[0]) \in Seq(Shown)
      <4>1. sent[0] \in Seq(Alphabet)
          BY <1>10
      <4>2. sent'[0] \in Seq(Alphabet)
          BY <2>2, <2>3, <4>1, CatType
      <4> QED BY <4>2, CompleteType
    <3>4. got'[0] = Cat(RedactComplete(sent'[0]), RedactComplete(late'[0]))
        BY <2>2, <3>2, <3>3, NothingRedacted, CatEmpty
    <3>5. 0 \in finished' /\ flushed'
        BY <1>4, <1>5, <2>1, <2>4
    <3> QED BY <1>5, <3>4, <3>5 DEF Ends
  <2>5. CASE ~f
    <3>1. ~flushed'
        BY <2>1, <2>5
    <3> QED BY <1>5, <2>2, <3>1 DEF Ends
  <2> QED BY <2>4, <2>5
<1> QED BY <1>8, <1>11, <1>12, <1>13

LEMMA FlushEnds ==
    ASSUME Indices = {0}, Ends, FlushTail, UNCHANGED <<sent, late>>
    PROVE  flushed' /\ got'[0] = Cat(RedactComplete(sent'[0]), RedactComplete(late'[0]))
<1>1. /\ Inv
      /\ ~flushed => late[0] = <<>>
      /\ flushed => got[0] = Cat(RedactComplete(sent[0]), RedactComplete(late[0]))
    BY DEF Ends
<1>2. last = 0 /\ sent \in [{0} -> Seq(Alphabet)] /\ got \in [{0} -> Seq(Shown)]
    BY <1>1 DEF Inv, Rest, Core, Now, States
<1>3. flushed' /\ sent' = sent /\ late' = late
      /\ got' = IF flushed THEN got ELSE [got EXCEPT ![last] = Cat(got[last], Flush(redactor))]
    BY DEF FlushTail, Cat
<1>4. CASE flushed
    BY <1>1, <1>3, <1>4
<1>5. CASE ~flushed
  <2>1. got'[0] = Cat(got[0], Flush(redactor))
      BY <1>2, <1>3, <1>5
  <2>2. got'[0] = RedactComplete(sent[0])
      BY <1>1, <1>5, <2>1, OneFlushed
  <2>3. RedactComplete(sent[0]) \in Seq(Shown)
    <3>1. sent[0] \in Seq(Alphabet)
        BY <1>2
    <3> QED BY <3>1, CompleteType
  <2>4. got'[0] = Cat(RedactComplete(sent[0]), RedactComplete(late[0]))
      BY <1>1, <1>5, <2>2, <2>3, NothingRedacted, CatEmpty
  <2> QED BY <1>3, <2>4
<1> QED BY <1>4, <1>5

LEMMA UnstreamedEnds ==
    ASSUME Indices = {0}, Ends, Unstreamed
    PROVE  got'[0] = Cat(RedactComplete(sent'[0]), RedactComplete(late'[0]))
<1>1. PICK texts \in [Indices -> Seq(Alphabet)] :
          sent' = texts /\ got' = [c \in Indices |-> RedactComplete(texts[c])]
    BY UnstreamedTexts
<1>2. late'[0] = <<>>
    BY DEF Ends, Unstreamed
<1>3. sent'[0] \in Seq(Alphabet) /\ got'[0] = RedactComplete(sent'[0])
    BY <1>1
<1>4. RedactComplete(sent'[0]) \in Seq(Shown)
    BY <1>3, CompleteType
<1> QED BY <1>2, <1>3, <1>4, NothingRedacted, CatEmpty

LEMMA EndsNext ==
    ASSUME Indices = {0}
    PROVE  Ends /\ [Next]_vars => Ends'
<1> SUFFICES ASSUME Ends, [Next]_vars PROVE Ends'
    OBVIOUS
<1>1. Inv'
    BY InvNext DEF Ends
<1>2. CASE Connect \/ UpstreamError \/ UnstreamedFails \/ Usage \/ Drop \/ UNCHANGED vars
    BY <1>1, <1>2 DEF Ends, Connect, UpstreamError, UnstreamedFails, Usage, Drop, vars
<1>3. CASE Unstreamed
  <2>1. got'[0] = Cat(RedactComplete(sent'[0]), RedactComplete(late'[0]))
      BY <1>3, UnstreamedEnds
  <2>2. pc' = "ended" /\ flushed' = TRUE
      BY <1>3 DEF Unstreamed
  <2> QED BY <1>1, <2>1, <2>2 DEF Ends
<1>4. CASE Done
  <2>1. flushed' /\ got'[0] = Cat(RedactComplete(sent'[0]), RedactComplete(late'[0]))
      BY <1>4, FlushEnds DEF Done
  <2>2. pc' = "open" /\ done'
      BY <1>4 DEF Done
  <2> QED BY <1>1, <2>1, <2>2 DEF Ends
<1>5. CASE Close
  <2>1. flushed' /\ got'[0] = Cat(RedactComplete(sent'[0]), RedactComplete(late'[0]))
      BY <1>5, FlushEnds DEF Close
  <2>2. pc' = "ended"
      BY <1>5 DEF Close
  <2> QED BY <1>1, <2>1, <2>2 DEF Ends
<1>6. ASSUME NEW n \in 1 .. Cardinality(Indices), NEW deltas \in [1 .. n -> Delta], Frame(deltas)
      PROVE  Ends'
    BY <1>1, <1>6, FrameEnds
<1> QED BY <1>2, <1>3, <1>4, <1>5, <1>6 DEF Next

(* For a response with one choice, whose index is 0 as in every response to*)
(* a request without n: a response that was not broken off ends with all of*)
(* its text at the client, redacted as a whole, the held tail included, and*)
(* nothing of it twice, however finish_reason, [DONE] and the end of the   *)
(* stream come together; a late chunk is redacted by itself.               *)
THEOREM StreamEndsComplete ==
    ASSUME Indices = {0}
    PROVE  Spec => []EndsComplete
<1>1. Init => Ends
  <2> SUFFICES ASSUME Init PROVE Ends
      OBVIOUS
  <2>1. Inv
      BY InvInit
  <2> QED BY <2>1 DEF Init, Ends
<1>2. Ends => EndsComplete
  <2> SUFFICES ASSUME Ends PROVE EndsComplete
      OBVIOUS
  <2>1. \A c \in Indices : c = 0
      OBVIOUS
  <2> QED BY <2>1 DEF Ends, EndsComplete, Cat
<1>3. Ends /\ [Next]_vars => Ends'
    BY EndsNext
<1> QED BY <1>1, <1>2, <1>3, PTL DEF Spec
=============================================================================
