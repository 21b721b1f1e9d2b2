-------------------------- MODULE MCAuditAttribution --------------------------
(* Two lives that start as shells and may become cat, each with a pid of    *)
(* its own (which then may as well be the life itself) or both with one.    *)
EXTENDS AuditAttribution, TLC

CONSTANTS l1, l2, pid, shell, cat, loader, file

OwnPid == [l \in Lives |-> l]
ReusedPid == [l \in Lives |-> pid]
MCFirstImage == [l \in Lives |-> shell]

Exchange == Permutations(Lives)
=============================================================================
