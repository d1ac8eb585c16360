\* Four connections: erasing one moves up to three others.  Each may ask for a
\* role twice, or be reset before it is accepted.  The server may be taken down
\* or stopped.
SPECIFICATION Spec
CONSTANTS
  MaxConnections = 4
  MaxAsks = 2
INVARIANTS
  TypeOK
  OneRole
  SubjectsReachable
PROPERTIES
  StaysUp
CHECK_DEADLOCK FALSE
