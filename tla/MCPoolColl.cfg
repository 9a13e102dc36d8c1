SPECIFICATION Spec
CONSTANTS
    s = s
    t = t
    oq = oq
    oj = oj
    u1 = u1
    u2 = u2
    v1 = v1
    v2 = v2
    w = w
    m = m
    oc = oc
    om = om
    ins = ins
    q = q
    u = u
    ua = ua
    ub = ub
    j = j
    jw = jw
    c = c
    ca = ca
    cb = cb
    cu = cu
    cua = cua
    cub = cub
    cz = cz
    Nil = Nil
    Buffer <- MCBuffer
    Stream <- MCStream
    Stmt <- CollStmt
    Type <- MCType
    Ins <- MCIns
    Out <- MCOut
    Parts <- WithColl
    CollOut <- OneColl
    Query = {q, j, c}
    Droppable = {}
    Deletable = {q, j}
    Unlucky = {}
INVARIANTS TableExact WholeQueries
