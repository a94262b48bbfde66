\* The truck in the middle has one truck ahead of it and one behind it.  Room
\* for two: a second write comes before the reading, and a third is refused.
SPECIFICATION DviSpec
CONSTANTS
  Size = 3
  me = 2
  MaxWaiting = 2
INVARIANT ShownIsLast
PROPERTIES ErrorPasses ConnectionsAgree
