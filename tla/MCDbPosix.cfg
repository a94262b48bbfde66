\* A client that creates and updates a variable and one that watches it; one
\* call is interrupted or one client crashes at any point, and three queue ids
\* let a client log in again.
SPECIFICATION Spec
CONSTANTS
  writer = writer
  watcher = watcher
  Client = {writer, watcher}
  Call <- Roles
  Queue <- QueueIds
  Name = {n1}
  BadVar = bad
  Value = {v0}
  Zero = v0
  Destroyable = {n1}
  MaxUsers = 3
  RetryLimit = 1
  SlvRoom = 1
  CltRoom = 3
  MaxFaults = 1
INVARIANTS PosixTypeOK OneAnswerPerCall AnswersFitCalls WaitsOnlyForBacklog LoginsAgree
PROPERTY CallsReturn
\* The server can wait for ever for room in the queue of a client that crashed.
CHECK_DEADLOCK FALSE
