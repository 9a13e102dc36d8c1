SPECIFICATION Spec
CONSTANTS
  ios = ios
  sched = sched
  Procs = {ios, sched}
  Fixed <- MCFixed
  Makes <- MCMakes
  Kills <- MCKills
  NoProc = NoProc
  Reentrant = TRUE
  MaxGen = 2
INVARIANTS TypeOK DictExact LookupExact
PROPERTY Returns
