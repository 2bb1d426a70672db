SPECIFICATION Spec
CONSTANTS
  Daemons = {d1}
  Readers = {r1, r2}
  Inodes = {i1, i2, i3, i4}
  NoInode = NoInode
  MaxFrame = 3
  Length <- MCLength
  Faults <- ToleratedFaults
INVARIANTS TypeOK TempPrivate ReadersSeeFrames ImageWhole
PROPERTIES Atomic
