---------------------------- MODULE TokenBudget ----------------------------
(***************************************************************************)
(* What the limiter of task4_router promises a tenant, with nothing said of*)
(* jobs, clocks or callers: a ledger of charges that no window of Window   *)
(* units may overdraw.  Charges are entered only if the ledger stays within*)
(* the limit, are settled once at no more than Overrun above the estimate, *)
(* and leave it when they are given back or are older than the window of a *)
(* newer charge.                                                           *)
(***************************************************************************)
EXTENDS Integers, FiniteSets

CONSTANTS
    Requests,    \* who may be charged, once each
    Keys,        \* tenants
    Limit,       \* tokens a tenant may be charged for in one window
    Window,      \* length of a window
    Overrun,     \* how far a bill may exceed its hold
    Time         \* the stamps a charge can bear

VARIABLE ledger  \* charge -> [key, tokens, at, state]

Charges == DOMAIN ledger

(* What of a charge the limit answers for: of a bill, all but the overrun. *)
Covered(charge) ==
    IF charge.state = "committed" THEN charge.tokens - Overrun ELSE charge.tokens

Held(charges, ids) ==
    Cardinality(UNION {{id} \X (1 .. Covered(charges[id])) : id \in ids})

(* No tenant holds more than the limit, and the overrun of each settled    *)
(* charge, in a window ending at any stamp.                                *)
Within(charges) ==
    \A k \in Keys, t \in Time :
        Held(charges, {id \in DOMAIN charges :
                         charges[id].key = k /\ charges[id].at \in t - Window .. t}) <= Limit

Init == ledger = [id \in {} |-> <<>>]

(* A hold is entered; charges that have left its window may be forgotten.  *)
Admit(r) ==
    /\ r \notin Charges
    /\ Charges' \subseteq Charges \cup {r}
    /\ r \in Charges'
    /\ ledger'[r].state = "reserved"
    /\ \A id \in Charges' \ {r} : ledger'[id] = ledger[id]
    /\ \A id \in Charges \ Charges' : ledger[id].at < ledger'[r].at - Window
    /\ Within(ledger')

(* The bill replaces the hold, which covered it but for the overrun.       *)
Settle(r) ==
    /\ r \in Charges
    /\ Charges' = Charges
    /\ ledger[r].state = "reserved" /\ ledger'[r].state = "committed"
    /\ ledger'[r].tokens <= ledger[r].tokens + Overrun
    /\ ledger'[r].key = ledger[r].key /\ ledger'[r].at = ledger[r].at
    /\ \A id \in Charges \ {r} : ledger'[id] = ledger[id]

GiveBack(r) ==
    /\ r \in Charges
    /\ ledger' = [id \in Charges \ {r} |-> ledger[id]]

Next == \E r \in Requests : Admit(r) \/ Settle(r) \/ GiveBack(r)

Spec == Init /\ [][Next]_ledger
=============================================================================
