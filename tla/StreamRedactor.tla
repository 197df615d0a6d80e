--------------------------- MODULE StreamRedactor ---------------------------
(***************************************************************************)
(* redactor.py: the redaction of a text that arrives in chunks.  A redactor*)
(* is a record, feed() and flush() are operators on it.                    *)
(*                                                                         *)
(* The patterns are scaled down to one of each kind the algorithm has to   *)
(* tell apart, and the alphabet with them: an e-mail address, whose parts  *)
(* have lengths within bounds and which has no fences, and a card, a run of*)
(* two or three digits which spaces may separate, fenced against further   *)
(* digits and checked after it matched.  MAX_MATCH is 5.                   *)
(***************************************************************************)
EXTENDS Integers, Sequences, FiniteSets, SequencesExt, FiniteSetsExt

CONSTANTS
    MaxHoldback,   \* MAX_HOLDBACK
    Lookbehind     \* LOOKBEHIND_CONTEXT

MaxMatch == 5
ASSUME BoundsAssumption ==
    /\ MaxHoldback \in Nat /\ MaxHoldback > MaxMatch
    /\ Lookbehind \in Nat /\ Lookbehind >= MaxMatch

Digits == {"1", "2"}
Alphabet == Digits \cup {" ", "@"}
Placeholder == "#"

----------------------------------------------------------------------------
(* PATTERNS.  A match is where it begins, where it ends, and its group.    *)

Span(t, S, i, j) == \A k \in i .. j : t[k] \in S
Within(i, lo, hi, t) == (i + lo) .. (IF i + hi < Len(t) THEN i + hi ELSE Len(t))

(* The greedy match of the address that begins at i.                       *)
EmailEnds(t, i) ==
    {j \in Within(i, 2, 4, t) : \E at \in {i + 1, i + 2} :
        /\ at < j /\ j <= at + 2
        /\ t[at] = "@" /\ Span(t, Digits, i, at - 1) /\ Span(t, Digits, at + 1, j)}

DigitCount(t, i, j) == Cardinality({k \in i .. j : t[k] \in Digits})

CardEnds(t, i) ==
    {j \in Within(i, 1, 4, t) :
        /\ t[i] \in Digits /\ t[j] \in Digits
        /\ Span(t, Digits \cup {" "}, i, j)
        /\ \A k \in i .. j - 1 : t[k] # " " \/ t[k + 1] # " "
        /\ DigitCount(t, i, j) \in {2, 3}
        /\ i = 1 \/ t[i - 1] \notin Digits
        /\ j = Len(t) \/ t[j + 1] \notin Digits}

(* luhn_ok: a check of the digits that some runs fail.                     *)
LuhnOk(t, i, j) == Cardinality({k \in i .. j : t[k] = "1"}) % 2 = 0

(* The end of the match that begins at i, of the first pattern that has one*)
(* there, and 0 if none has.                                               *)
MatchEnd(t, i) ==
    LET cards == CardEnds(t, i) IN
    IF EmailEnds(t, i) # {} THEN Max(EmailEnds(t, i))
    ELSE IF cards # {} /\ LuhnOk(t, i, Max(cards)) THEN Max(cards) ELSE 0

(* iter_matches: the leftmost match from a position on and so on after it. *)
(* A run that fails the check is left by one character.                    *)
Matches(t, from) ==
    LET f[i \in 1 .. Len(t) + 1] ==
          IF i > Len(t) THEN {}
          ELSE IF MatchEnd(t, i) = 0 THEN f[i + 1]
          ELSE {[first |-> i, last |-> MatchEnd(t, i)]} \cup f[MatchEnd(t, i) + 1]
    IN f[from]

(* What becomes of the k-th character: a match is replaced as a whole.     *)
Piece(t, inside, k) ==
    IF \E m \in inside : m.first = k THEN <<Placeholder>>
    ELSE IF \E m \in inside : k \in m.first .. m.last THEN <<>>
    ELSE <<t[k]>>

(* redact_range: t from offset + 1 to split, the matches in it replaced,   *)
(* and no match that runs past it.                                         *)
RedactRange(t, offset, split, matches) ==
    LET inside == {m \in matches : m.last <= split}
        out[k \in offset .. split] ==
            IF k = offset THEN <<>> ELSE out[k - 1] \o Piece(t, inside, k)
    IN  out[split]

RedactComplete(t) == RedactRange(t, 0, Len(t), Matches(t, 1))

----------------------------------------------------------------------------
(* The longest suffix of b, of at most n characters, that satisfies Test.  *)
LongestTail(b, n, Test(_)) ==
    Max({0} \cup {h \in 1 .. Min({n, Len(b)}) : Test(Len(b) - h + 1)})

(* Mutation of Holdback: no cap.                                           *)
HoldbackUncapped(b) ==
    LongestTail(b, Len(b), LAMBDA i : \/ Span(b, Digits \cup {"@"}, i, Len(b))
                                      \/ b[i] \in Digits /\ Span(b, Digits \cup {" "}, i, Len(b)))

(* holdback: TAIL_TOKEN or TAIL_DIGITS, whichever is longer.               *)
Holdback(b) ==
    LongestTail(b, MaxHoldback, LAMBDA i : \/ Span(b, Digits \cup {"@"}, i, Len(b))
                                           \/ b[i] \in Digits /\ Span(b, Digits \cup {" "}, i, Len(b)))

(* Mutation of PullBack: a match may straddle the split.                   *)
PullBackNever(split, offset, matches) == split

(* pull_back_behind_straddling_match.                                      *)
PullBack(split, offset, matches) ==
    LET straddling == {m \in matches : m.first <= split /\ split < m.last} IN
    IF straddling = {} THEN split ELSE Max({offset, Min({m.first : m \in straddling}) - 1})

(* Mutation of LastOf: all of it is kept.                                 *)
LastOfAll(t, n) == t

(* The last n characters of t.                                             *)
LastOf(t, n) == SubSeq(t, IF Len(t) > n THEN Len(t) - n + 1 ELSE 1, Len(t))

New == [buffer |-> <<>>, context |-> <<>>]

(* feed(): the redactor after a chunk, and what it lets go.                *)
Feed(r, chunk) ==
    LET buffer == r.buffer \o chunk
        whole == r.context \o buffer
        offset == Len(r.context)
        matches == Matches(whole, offset + 1)
        split == PullBack(Len(whole) - Holdback(buffer), offset, matches)
    IN  [redactor |-> [buffer |-> SubSeq(whole, split + 1, Len(whole)),
                       context |-> LastOf(SubSeq(whole, 1, split), Lookbehind)],
         emit |-> RedactRange(whole, offset, split, matches)]

(* flush(): what is left.  A redactor that is closed is New.               *)
Flush(r) ==
    LET whole == r.context \o r.buffer
        offset == Len(r.context)
    IN  RedactRange(whole, offset, Len(whole), Matches(whole, offset + 1))
=============================================================================
