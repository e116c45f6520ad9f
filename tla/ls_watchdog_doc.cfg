SPECIFICATION Spec
CONSTANTS
  default = default
  c1 = c1
  s1 = s1
  None = None
  Keys = {default}
  Default = default
  Callers = {c1}
  Stoppers = {s1}
  Procs = {1, 2, 3}
  MaxFaults = 1
INVARIANTS WatchdogRuns
