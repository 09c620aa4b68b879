SPECIFICATION Spec
CONSTANTS
  Sessions = {s1}
  Ids = {m1, m2, m3}
  Texts = {draft, edited}
  Contexts = {k1, k2}
  NoQueue = NoQueue
  NoItem = NoItem
  NoWrite = NoWrite
  Capacity = 2
  MaxPending = 2
  MaxRestarts = 1
SYMMETRY Symmetry
INVARIANTS
  TypeOK
  HandedOverOnce
PROPERTIES
  HandsOverHead
