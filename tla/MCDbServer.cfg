\* Two variables besides the bad one, and three clients: an entry of the list, and
\* of a trigger list, can be first, last or between two others.  The logins are
\* checked in MCDbPosix.cfg.
SPECIFICATION DbSpec
CONSTANTS
  Name = {n1, n2}
  BadVar = bad
  Value = {v0, v1}
  Zero = v0
  Queue = {q1, q2, q3}
  Destroyable = {n1, n2}
  MaxUsers = 0
SYMMETRY Symmetry
INVARIANTS BadVarLast NamesUnique TriggersUnique
PROPERTIES ReadsNameAsked ImplementsVarTable
