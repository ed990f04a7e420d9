\* Three keys whose paths meet, two values, room for 2, then 4, then 8 elements.
SPECIFICATION Spec
CONSTANTS
  k1 = k1
  k2 = k2
  k3 = k3
  Keys = {k1, k2, k3}
  Vals = {v1, v2}
  Hash <- Colliding
  Sizes = {4, 8, 16}
  MinSize = 4
  Gone = Gone
  NoElement = NoElement
  Idle = Idle
INVARIANTS
  SearchEnds
  EntriesExact
PROPERTIES
  ImplementsMap
