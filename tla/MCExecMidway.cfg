SPECIFICATION Spec
CONSTANTS
  s1 = s1 s2 = s2 t = t u1 = u1 u2 = u2 ou = ou v1 = v1
  v2 = v2 ov = ov od = od oe = oe qi = qi ua = ua ub = ub
  qu = qu va = va vb = vb qv = qv qd = qd qe = qe
  Nil = Nil
  Query = {qi, qu}
  Droppable = {qu}
  Midway = TRUE
  Budget = 2
  MaxTuples = 2
  MaxStops = 1
  Stmt <- MCStmt
  Buffer <- MCBuffer
  Type <- MCType
  Ins <- MCIns
  Out <- MCOut
  Parts <- MCParts
  Timed <- MCTimed
  Input <- MCInput
  Client <- MCClient
INVARIANTS ProcessedExact
