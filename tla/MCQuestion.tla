------------------------------ MODULE MCQuestion ------------------------------
(* A helper below two processes with the owner's name.                      *)
EXTENDS Question, TLC

CONSTANTS helper, parent, outer, tool, owner, owner2

MCFirstProcess ==
    (helper :> Process(0, tool, parent)) @@ (parent :> Process(0, owner, outer))
    @@ (outer :> Process(0, owner2, Root))
=============================================================================
