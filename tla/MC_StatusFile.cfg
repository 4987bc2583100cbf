SPECIFICATION Spec
CONSTANTS
  Writers = {task, reconcile}
  Inodes = {i1, i2, i3, i4}
  NoInode = NoInode
  Records = {running, finished, interrupted}
  Absent = Absent
  NoRead = NoRead
  SingleWriter = TRUE
INVARIANTS
  TypeOK
  NeverTorn
PROPERTY
  ImplementsRegister
