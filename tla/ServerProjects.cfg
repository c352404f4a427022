\* Two requests at a time, two crashes, two writes that fail.
SPECIFICATION Spec
CONSTANTS
  Literal = literal
  other = other
  h1 = h1
  h2 = h2
  Names <- ProjectNames
  Handlers <- Threads
  Loader = loader
  NoProject = noProject
  MaxCrashes = 2
  MaxFailures = 2
SYMMETRY Symmetry
INVARIANTS CreatedIsKept CreatedOnce
\* An empty INFO.txt keeps the server from starting.
CHECK_DEADLOCK FALSE
