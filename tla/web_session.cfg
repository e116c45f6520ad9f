SPECIFICATION Spec
CONSTANTS
  Views = {"Overview"}
  Passwords = {"p1", "p2"}
  Threshold = 2
  MaxCalls = 2
PROPERTIES  RouterSettles
