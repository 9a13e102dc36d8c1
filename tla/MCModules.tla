------------------------------ MODULE MCModules ------------------------------
(* Instance of Modules for TLC. *)
EXTENDS Modules, TLC

CONSTANTS q1, q2, q3, s1, s2, t1, t2

\* Queries over two streams: q2 is of a private user, q3 cannot be loaded.
ModuleReads == q1 :> s1 @@ q2 :> s2 @@ q3 :> s1
AllKinds == {"query", "activate", "deactivate", "delete", "table", "stream",
             "undeclare", "components"}
=============================================================================
