\* Two recovery phrases and two passwords; no indices move.
CONSTANTS
  s1 = s1  s2 = s2  p1 = p1  p2 = p2  None = None
  Seeds = {s1, s2}
  Passwords = {p1, p2}
  MaxIndex = 0
  MaxBackups = 2
  MaxSaves = 2
  Events = {"crash", "io", "replace"}
SPECIFICATION Spec
SYMMETRY Interchangeable
INVARIANT WalletsKept
PROPERTIES ReplacedFilesKept OpensWithConsent
