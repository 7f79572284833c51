SPECIFICATION Spec
CONSTANTS
  Base = 4
  Uint16 = 5
  Uint32 = 8
  Uint64 = 32
  Garbage = 3
  Objects = {a, b}
  MaxEdits = 2
INVARIANT SizeAnnounced
PROPERTY ImplementsValues
