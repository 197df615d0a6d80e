---------------------------- MODULE MCSseStream ----------------------------
(* A late chunk that would complete a card, had it come in time.           *)
EXTENDS SseStream

MCLate == {<<"1">>}
=============================================================================
