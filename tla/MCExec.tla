------------------------------- MODULE MCExec -------------------------------
(***************************************************************************)
(* Queries for Exec over two streams s1 and s2 that I/O modules write.  qi *)
(* copies s1 to t; qu is a timed union of a branch from s1 and one from    *)
(* s2; qv is a timeless union of two branches from t; qd and qe read the   *)
(* output of qu.                                                           *)
(***************************************************************************)
EXTENDS Exec

CONSTANTS s1, s2, t, u1, u2, ou, v1, v2, ov, od, oe,
          qi, ua, ub, qu, va, vb, qv, qd, qe

MCBuffer == {s1, s2, t, u1, u2, ou, v1, v2, ov, od, oe}
MCInput == {s1, s2}
MCTimed == {qu}

Def(type, ins, out) == [type |-> type, ins |-> ins, out |-> out]
Defs(y) ==
    CASE y = qi -> Def("normal", <<s1>>, t)
      [] y = ua -> Def("normal", <<s1>>, u1)
      [] y = ub -> Def("normal", <<s2>>, u2)
      [] y = qu -> Def("union", <<u1, u2>>, ou)
      [] y = va -> Def("normal", <<t>>, v1)
      [] y = vb -> Def("normal", <<t>>, v2)
      [] y = qv -> Def("union", <<v1, v2>>, ov)
      [] y = qd -> Def("normal", <<ou>>, od)
      [] y = qe -> Def("normal", <<ou>>, oe)

MCStmt == UNION {ToSet(Flow(q)) : q \in Query}
MCType == [y \in Stmt |-> Defs(y).type]
MCIns == [y \in Stmt |-> Defs(y).ins]
MCOut == [y \in Stmt |-> Defs(y).out]
MCParts == [y \in Query |-> CASE y = qu -> <<ua, ub>> [] y = qv -> <<va, vb>>
                              [] OTHER -> << >>]
MCClient == {ov, od, oe}
=============================================================================
