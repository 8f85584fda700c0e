-------------------------- MODULE MCSaaSMembership --------------------------
(* TLC instance of SaaSMembership: two commands at a time over two           *)
(* memberships, one link and two seat types.                                 *)
EXTENDS SaaSMembership, TLC

CONSTANTS c1, c2, m1, m2, r1, r2, l1, s1, s2

Alike == Permutations({c1, c2}) \cup Permutations({m1, m2}) \cup Permutations(Roles)
         \cup Permutations(Seats)
=============================================================================
