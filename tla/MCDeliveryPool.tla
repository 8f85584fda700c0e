--------------------------- MODULE MCDeliveryPool ---------------------------
(***************************************************************************)
(* TLC instances of DeliveryPool: two deliveries about one referral and a  *)
(* third about another.                                                    *)
(***************************************************************************)
EXTENDS DeliveryPool

CONSTANTS d1, d2, d3, alice, bob

TwoReferrals == [d \in {d1, d2, d3} |-> IF d = d3 THEN bob ELSE alice]
=============================================================================
