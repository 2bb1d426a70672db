SPECIFICATION Spec
CONSTANTS
  Daemons = {d1}
  Readers = {r1}
  Inodes = {i1, i2, i3}
  NoInode = NoInode
  MaxFrame = 2
  Length <- MCLength
  Faults <- DiskFull
INVARIANTS ImageWhole
