------------------------------ MODULE MCRestart ------------------------------
(* Instance of Restart for TLC. *)
EXTENDS Restart, TLC

CONSTANTS q1, q2, s1, s2, t1

\* Two queries that read different streams; q2 cannot be loaded.
RestartReads == q1 :> s1 @@ q2 :> s2
MostKinds == {"query", "activate", "delete", "table", "stream", "undeclare"}
=============================================================================
