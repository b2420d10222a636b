\* A kick, and the room closes over its members.
SPECIFICATION Spec
CONSTANTS
  Client = {c1, c2}
  MaxLoad = 2
  MaxDrift = 2
PROPERTIES StaysOpenWhileUsed
CHECK_DEADLOCK FALSE
