\* Three places make the buffer wrap and overflow within four operations.
SPECIFICATION Spec
CONSTANTS
  Item = {m1, m2, m3}
  NoItem = NoItem
  Size = 3
PROPERTY ImplementsRecentQueue
