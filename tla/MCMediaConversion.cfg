SPECIFICATION Spec
CONSTANTS
  Buffers = {b1, b2}
  Free = Free
  Bodies <- MCBodies
SYMMETRY Addresses
INVARIANTS CacheIsAlive OwnImage
