---------------------------- MODULE MCQueryPool ----------------------------
(***************************************************************************)
(* Queries for QueryPool over two streams.  ins and the union u both write *)
(* the stream t, so that only one of them can be active; q and the join j  *)
(* read t; the collection c writes t as well.                              *)
(***************************************************************************)
EXTENDS QueryPool

CONSTANTS s, t, oq, oj, u1, u2, v1, v2, w, m, oc, om,
          ins, q, u, ua, ub, j, jw, c, ca, cb, cu, cua, cub, cz

MCBuffer == {s, t, oq, oj, u1, u2, v1, v2, w, m, oc, om}
MCStream == {s, t}

\* Statement: its type, inputs, output and parts.
Def(type, in, out, parts) ==
    [type |-> type, in |-> in, out |-> out, parts |-> parts]
Defs(x) ==
    CASE x = ins -> Def("normal", <<s>>, t, << >>)
      [] x = q -> Def("normal", <<t>>, oq, << >>)
      [] x = u -> Def("union", <<u1, u2>>, t, <<ua, ub>>)
      [] x = ua -> Def("normal", <<s>>, u1, << >>)
      [] x = ub -> Def("normal", <<s>>, u2, << >>)
      [] x = j -> Def("join", <<w, s>>, oj, <<jw>>)
      [] x = jw -> Def("normal", <<t>>, w, << >>)
      [] x = ca -> Def("normal", <<s>>, m, << >>)
      [] x = cb -> Def("normal", <<m>>, oc, << >>)
      [] x = cu -> Def("union", <<v1, v2>>, om, <<cua, cub>>)
      [] x = cua -> Def("normal", <<m>>, v1, << >>)
      [] x = cub -> Def("normal", <<s>>, v2, << >>)
      [] x = cz -> Def("normal", <<om>>, t, << >>)

MCType == [x \in Stmt |-> Defs(x).type]
MCIns == [x \in Stmt |-> Defs(x).in]
MCOut == [x \in Stmt |-> Defs(x).out]

AllStmt == {ins, q, u, ua, ub, j, jw}
CollStmt == {ins, q, j, jw, ca, cb, cu, cua, cub, cz}

\* c: a flow of two statements and a union, the last one inserting into t.
CollParts == <<ca, cb, cu, cz>>
PlainParts == [x \in Stmt |-> Defs(x).parts]
WithColl == [x \in Stmt \cup {c} |-> IF x = c THEN CollParts ELSE Defs(x).parts]
NoColl == << >>
OneColl == [x \in {c} |-> t]
============================================================================
