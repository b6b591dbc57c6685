CONSTANTS
  w1 = w1
  w2 = w2
  f1 = f1
  f2 = f2
  Writers <- MCWriters
  Files <- MCFiles
  Chunks = 1
  Prior = Prior
  Absent = Absent
  Symlink = Symlink
  Directory = Directory
  Input = Input
  None = None
  MaxFaults = 2
SYMMETRY MCSymmetry
SPECIFICATION Spec
INVARIANTS NoStrayTemporaries
PROPERTIES RefusedIsKept ImplementsAtomicFile
CHECK_DEADLOCK FALSE
