SPECIFICATION Spec
CONSTANTS
  p1 = p1 p2 = p2 c = c a1 = a1 a2 = a2 a3 = a3 v1 = v1 v2 = v2
  Nil = Nil
  Wild = Wild
  Putters <- MCPutters
  Getter = c
  Addr <- MCAddr
  Val <- MCVal
  MaxFault = 2
SYMMETRY Symmetry
INVARIANTS TypeOK ListOK NoBadDeref NoNullDeref
