\* No failures, no replacement: only a lock that waits for a busy engine,
\* and an unlock meanwhile.
CONSTANTS
  s1 = s1  s2 = s2  p1 = p1  p2 = p2  None = None
  Seeds = {s1}
  Passwords = {p1}
  MaxIndex = 1
  MaxBackups = 1
  MaxSaves = 1
  Events = {}
SPECIFICATION Spec
INVARIANT UnlockedCanConnect
