-------------------------- MODULE MCCommandProtocol --------------------------
(* Instance of CommandProtocol for TLC: a client that does not wait. *)
EXTENDS CommandProtocol, TLC

CONSTANTS q1, s1, t1

EagerReads == q1 :> s1
AllKinds == {"query", "activate", "deactivate", "delete", "table", "stream",
             "undeclare", "components"}
=============================================================================
