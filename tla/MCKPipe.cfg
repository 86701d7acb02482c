SPECIFICATION Spec
CONSTANTS
  r1 = r1
  w1 = w1
  w2 = w2
  ReadEnds <- OneReader
  WriteEnds <- TwoWriters
  NoEnd = NoEnd
  PIPE_BUF_SIZE = 2
  MaxLength = 3
SYMMETRY Sym
INVARIANTS
  TypeOK
  WaitersMustWait
  OpenPipeIsMapped
PROPERTIES
  RingIsFifo
  AtomicWrites
CHECK_DEADLOCK FALSE
