--------------------------- MODULE MCSponsorWallet ---------------------------
(* TLC instance of SponsorWallet: a reward whose id is a UUID, a dearer one  *)
(* with a serial number, two calls.                                          *)
EXTENDS SponsorWallet, TLC

CONSTANTS c1, c2, uuid, serial

OneAndTwo == [r \in Rewards |-> IF r = serial THEN 2 ELSE 1]
Alike == Permutations({c1, c2})
=============================================================================
