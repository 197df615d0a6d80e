------------------------------ MODULE SseStream ------------------------------
(***************************************************************************)
(* llm_gateway.py between a model provider and a client, one response:     *)
(* redact_sse_stream for a streamed one, and the pass over a whole one.    *)
(* The provider is external: it sends frames with the chunks of one or     *)
(* several choices, ends a choice with or without content in the last      *)
(* frame, and ends the stream with [DONE], by closing it, or by breaking   *)
(* off.  Lines the gateway only passes on (comments, what does not parse)  *)
(* change nothing and are left out.                                        *)
(***************************************************************************)
EXTENDS StreamRedactor

CONSTANTS
    Indices,      \* the indices of the choices of the response
    MaxText,      \* bound on the text of a choice
    MaxChunk,     \* bound on the text of one frame's choice
    LateChunks    \* what a choice may still be sent after its end

ASSUME IndicesAssumption == Indices \subseteq Nat /\ IsFiniteSet(Indices)
ASSUME TextsAssumption == MaxText \in Nat /\ MaxChunk \in Nat

NoContent == <<"none">>   \* delta without content, or with content that is no string

VARIABLES
    pc,         \* "connecting", "open", "ended", "dropped" or "refused"
    redactor,   \* the StreamRedactor, one for the response
    flushed,    \* whether it was flushed
    last,       \* the choice the tail goes to: the first of last_frame, or 0
    finished,   \* the choices whose finish_reason the provider sent
    done,       \* whether it sent [DONE]
    sent,       \* choice -> the text it sent until the flush
    late,       \* choice -> the chunk it sent after that, if any
    got         \* choice -> the text the client was sent

vars == <<pc, redactor, flushed, last, finished, done, sent, late, got>>

Chunks == UNION {[1 .. n -> Alphabet] : n \in 0 .. MaxChunk}
Texts == UNION {[1 .. n -> Alphabet] : n \in 0 .. MaxText}
Delta == [index : Indices, content : Chunks \cup {NoContent}, finish : BOOLEAN]

Init ==
    /\ pc = "connecting"
    /\ redactor = New
    /\ flushed = FALSE
    /\ last = 0
    /\ finished = {}
    /\ done = FALSE
    /\ sent = [c \in Indices |-> <<>>]
    /\ late = [c \in Indices |-> <<>>]
    /\ got = [c \in Indices |-> <<>>]

Connect ==
    /\ pc = "connecting"
    /\ pc' = "open"
    /\ UNCHANGED <<redactor, flushed, last, finished, done, sent, late, got>>

(* status_code >= 400: an error frame and [DONE].                          *)
UpstreamError ==
    /\ pc = "connecting"
    /\ pc' = "dropped"
    /\ UNCHANGED <<redactor, flushed, last, finished, done, sent, late, got>>

(* The text of a choice, of which content that is no string has none.      *)
TextOf(content) == IF content = NoContent THEN <<>> ELSE content

(* "stream": false.  Every choice is redacted in one pass.  What is no     *)
(* string is not: it is passed on as it came (llm_gateway.py:296), where a *)
(* stream drops it; neither adds to the texts.                             *)
Unstreamed ==
    /\ pc = "connecting"
    /\ pc' = "ended"
    /\ flushed' = TRUE
    /\ \E contents \in [Indices -> Texts \cup {NoContent}] :
          /\ sent' = [c \in Indices |-> TextOf(contents[c])]
          /\ got' = [c \in Indices |-> RedactComplete(sent'[c])]
    /\ UNCHANGED <<redactor, last, finished, done, late>>

(* A timeout, a transport error, a status of 400 or more, or a body that is*)
(* no JSON object: 502 or 504 (500 if it is nested too deep to decode), and*)
(* nothing of the body.                                                    *)
UnstreamedFails ==
    /\ pc = "connecting"
    /\ pc' = "refused"
    /\ UNCHANGED <<redactor, flushed, last, finished, done, sent, late, got>>

(* What the loop over the choices carries along, and one turn of it.       *)
Turn(finishing, s, d) ==
    IF d.content = NoContent THEN s
    ELSE IF s.flushed THEN
        [s EXCEPT !.got[d.index] = @ \o RedactComplete(d.content),
                  !.late[d.index] = @ \o d.content]
    ELSE LET fed == IF d.content = <<>> THEN [redactor |-> s.redactor, emit |-> <<>>]
                                        ELSE Feed(s.redactor, d.content)
             tail == IF finishing THEN Flush(fed.redactor) ELSE <<>>
         IN  [s EXCEPT !.redactor = IF finishing THEN New ELSE fed.redactor,
                       !.flushed = finishing,
                       !.sent[d.index] = @ \o d.content,
                       !.got[d.index] = @ \o fed.emit \o tail]

(* _finish_reason_of.                                                      *)
Finishes(deltas) == \E k \in DOMAIN deltas : deltas[k].finish

(* A frame with choices.  The provider sends nothing of a choice it has    *)
(* ended, but for a late chunk.                                            *)
Frame(deltas) ==
    /\ pc = "open"
    /\ \A k \in DOMAIN deltas :
          LET d == deltas[k] IN
          /\ d.content # NoContent =>
                Len(sent[d.index]) + Len(late[d.index]) + Len(d.content) <= MaxText
          /\ (d.content # NoContent /\ (done \/ d.index \in finished)) =>
                d.content \in LateChunks /\ late[d.index] = <<>>
          /\ d.index \in finished \/ done => ~d.finish
    /\ LET turn[k \in 0 .. Len(deltas)] ==
              IF k = 0 THEN [redactor |-> redactor, flushed |-> flushed, sent |-> sent,
                             late |-> late, got |-> got]
              ELSE Turn(Finishes(deltas), turn[k - 1], deltas[k])
           s == turn[Len(deltas)]
       IN  /\ redactor' = s.redactor /\ flushed' = s.flushed
           /\ sent' = s.sent /\ late' = s.late /\ got' = s.got
    /\ last' = deltas[1].index
    /\ finished' = finished \cup {deltas[k].index : k \in {j \in DOMAIN deltas : deltas[j].finish}}
    /\ UNCHANGED <<pc, done>>

(* A frame without choices, the usage of the response for one.             *)
Usage ==
    /\ pc = "open"
    /\ last' = 0
    /\ UNCHANGED <<pc, redactor, flushed, finished, done, sent, late, got>>

(* The tail goes out in a frame of its own, if it was not flushed before.  *)
FlushTail ==
    /\ flushed' = TRUE
    /\ redactor' = New
    /\ got' = IF flushed THEN got ELSE [got EXCEPT ![last] = @ \o Flush(redactor)]

Done ==
    /\ pc = "open" /\ ~done
    /\ FlushTail
    /\ done' = TRUE
    /\ UNCHANGED <<pc, last, finished, sent, late>>

(* Mutation of Close: no flush where the upstream ended without [DONE].    *)
CloseUnflushed ==
    /\ pc = "open"
    /\ pc' = "ended"
    /\ UNCHANGED <<redactor, flushed, last, finished, done, sent, late, got>>

Close ==
    /\ pc = "open"
    /\ FlushTail
    /\ pc' = "ended"
    /\ UNCHANGED <<last, finished, done, sent, late>>

(* A timeout or a transport error raises out of the loop over the lines:   *)
(* an error frame and [DONE].                                              *)
Drop ==
    /\ pc = "open"
    /\ pc' = "dropped"
    /\ UNCHANGED <<redactor, flushed, last, finished, done, sent, late, got>>

Next ==
    \/ Connect \/ UpstreamError \/ Unstreamed \/ UnstreamedFails
    \/ \E n \in 1 .. Cardinality(Indices) :
          \E deltas \in [1 .. n -> Delta] :
             /\ \A k \in 2 .. n : deltas[k - 1].index < deltas[k].index
             /\ Frame(deltas)
    \/ Usage \/ Done \/ Close \/ Drop

Spec == Init /\ [][Next]_vars

----------------------------------------------------------------------------
TypeOK ==
    /\ pc \in {"connecting", "open", "ended", "dropped", "refused"}
    /\ flushed \in BOOLEAN /\ done \in BOOLEAN
    /\ last \in Indices \cup {0} /\ finished \subseteq Indices
    /\ redactor \in [buffer : Seq(Alphabet), context : Seq(Alphabet)]
    /\ Len(redactor.context) <= Lookbehind
    /\ sent \in [Indices -> Seq(Alphabet)] /\ late \in [Indices -> Seq(Alphabet)]
    /\ got \in [Indices -> Seq(Alphabet \cup {Placeholder})]

(* For a response with one choice, wherever the chunks were cut and even   *)
(* where the connection broke (llm_gateway.py:321-329): what the client    *)
(* has, with what a flush would add here, is the redaction of the whole    *)
(* text so far.  So nothing is sent that has to be taken back when more    *)
(* arrives, a lost connection costs the held tail and no more, and it      *)
(* leaves no part of a match with the client.                              *)
Alone(c) == \A d \in Indices \ {c} : sent[d] = <<>>
RedactedAsWhole ==
    ~flushed =>
        \A c \in Indices : Alone(c) => got[c] \o Flush(redactor) = RedactComplete(sent[c])

(* More than MAX_HOLDBACK is held only for a match that began before and   *)
(* ends within what is held (redactor.py:120-128).                         *)
HeldForAMatch ==
    Len(redactor.buffer) > MaxHoldback =>
        \E m \in Matches(redactor.context \o redactor.buffer, Len(redactor.context) + 1) :
            /\ m.first = Len(redactor.context) + 1
            /\ m.last > Len(redactor.context) + Len(redactor.buffer) - MaxHoldback

(* A response that was not broken off leaves no tail behind, and one that  *)
(* broke after the flush has lost nothing: the client has all of the one   *)
(* choice, and what came late was redacted by itself (llm_gateway.py:35-38,*)
(* 178-182).                                                               *)
EndsComplete ==
    /\ pc = "ended" => flushed
    /\ flushed => \A c \in Indices : Alone(c) =>
                     got[c] = RedactComplete(sent[c]) \o RedactComplete(late[c])

(* "Every choice, not just choices[0]" (llm_gateway.py:161): of a response *)
(* with several choices, each is redacted as a whole and sent as itself.   *)
EachChoiceWhole ==
    (pc = "ended" /\ \A c \in Indices : late[c] = <<>>) =>
        \A c \in Indices : got[c] = RedactComplete(sent[c])
=============================================================================
