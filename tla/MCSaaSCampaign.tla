--------------------------- MODULE MCSaaSCampaign ---------------------------
(* TLC instance of SaaSCampaign: two commands at a time, two actors.         *)
EXTENDS SaaSCampaign, TLC

CONSTANTS c1, c2, ann, bob, v1, v2

Alike == Permutations({c1, c2}) \cup Permutations({ann, bob}) \cup Permutations(Versions)
=============================================================================
