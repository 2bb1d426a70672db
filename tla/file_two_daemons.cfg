SPECIFICATION Spec
CONSTANTS
  Daemons = {d1, d2}
  Readers = {r1}
  Inodes = {i1, i2, i3, i4}
  NoInode = NoInode
  MaxFrame = 2
  Length <- MCLength
  Faults <- NoFaults
INVARIANTS ImageWhole
