SPECIFICATION Spec
CONSTANTS
  parent = parent
  child = child
  grandchild = grandchild
  p1 = p1
  a1 = a1
  a2 = a2
  b1 = b1
  Procs = {K, parent, child, grandchild}
  Threads = {p1, a1, a2, b1}
  gk_KernelProcess = K
  First = parent
  Owner <- Owners
  MainThread <- Mains
  Exiting = {a1}
  Detached = {p1}
  Asynchronous = {a2}
  Spawns <- Line
  Waits <- LineWaits
  ANY = ANY
  NULL = NULL
  Signalled = {child}
  MaxSignals = 2
INVARIANTS FamilyTree WaiterSeesExit
PROPERTY DeadKeepsStatus
CHECK_DEADLOCK FALSE
