------------------------- MODULE MCAuditIdentityCalls -------------------------
(* Three keys, two generations with two images each and one identity that   *)
(* was recorded without a start time.                                       *)
EXTENDS AuditIdentityCalls

CONSTANTS k1, k2, k3, old, exec, new, bare

MCStartOf == [i \in Identities |->
    CASE i \in {old, exec} -> 1 [] i = new -> 2 [] i = bare -> 0]
=============================================================================
