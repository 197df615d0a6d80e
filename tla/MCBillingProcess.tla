------------------------- MODULE MCBillingProcess -------------------------
(* Ada has 3 to refund, Grace 1.  Intents 1 and 4 compete for Ada's        *)
(* balance, with 3, which has no key; 2 reuses the key of 1 with another   *)
(* customer; 5 is below the range of amounts, 6 for nobody on record, and  *)
(* 7 only reads.                                                           *)
EXTENDS BillingProcess

MCOpening == [cu \in Customers |-> IF cu = "ada" THEN 3 ELSE 1]
MCRefund(cu, a, k) ==
    [tool |-> "trigger_refund", customer |-> cu, amount |-> a, reason |-> "r", key |-> k]
MCTries == [i \in Intents |-> IF i \in {1, 3} THEN 2 ELSE 1]
MCTerms == [i \in Intents |->
    CASE i = 1 -> MCRefund("ada", 2, "k1")
      [] i = 2 -> MCRefund("grace", 1, "k1")
      [] i = 3 -> MCRefund("ada", 1, NoKey)
      [] i = 4 -> MCRefund("ada", 2, "k2")
      [] i = 5 -> MCRefund("ada", -1, NoKey)
      [] i = 6 -> MCRefund("nobody", 1, NoKey)
      [] OTHER -> [MCRefund("ada", 1, NoKey) EXCEPT !.tool = "get_customer_record"]]
=============================================================================
