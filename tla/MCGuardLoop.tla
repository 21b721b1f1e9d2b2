---------------------------- MODULE MCGuardLoop ----------------------------
(* Small instances of GuardLoop.  p1 and p2 run the same helper under the   *)
(* same owner executable, so their accesses share one authorization pair.   *)
EXTENDS GuardLoop

CONSTANTS e1, e2, e3, e4, p1, p2, owner, k1, k2, a1, a2, pair

Settle(d) == [verdict |-> d, key |-> NoKey, auth |-> NoAuth, session |-> TRUE]
Ask(k, a, s) == [verdict |-> "Prompt", key |-> k, auth |-> a, session |-> s]

MCOpenerOf == [e \in Events |-> IF e \in {e1, e2} THEN p1 ELSE p2]
MCHelperOf == [k \in Keys |-> IF k = k1 THEN p1 ELSE p2]
MCOwnerOf == [a \in Auths |-> owner]
MCPairOf == [a \in Auths |-> pair]

(* e1 and e2 are reads of one process for one reason; e3 is made by the     *)
(* other process; e4 is an access of it that the policy allows.             *)
MCViews == [e \in Events |->
    CASE e = e1 -> {Ask(k1, a1, TRUE), Ask(NoKey, NoAuth, TRUE)}
      [] e = e2 -> {Ask(k1, a1, TRUE), Ask(k1, a1, FALSE), Ask(NoKey, NoAuth, TRUE)}
      [] e = e3 -> {Ask(k2, a2, TRUE), Ask(NoKey, NoAuth, FALSE), Settle("Error")}
      [] e = e4 -> {Settle("Allow")}]

=============================================================================
