\* Three controllers that crash or release the lock in order.
SPECIFICATION Spec
CONSTANTS
  Process = {p1, p2, p3}
  Inode = {i1, i2, i3, i4}
  None = None
SYMMETRY Interchangeable
INVARIANTS
  OneUnlessRaced
PROPERTIES
  RefusedByTheLiving
