\* One wallet, two indices per chain, two saves in the queue.
CONSTANTS
  s1 = s1  s2 = s2  p1 = p1  p2 = p2  None = None
  Seeds = {s1}
  Passwords = {p1}
  MaxIndex = 1
  MaxBackups = 0
  MaxSaves = 2
  Events = {"crash", "io", "receive", "spend", "config"}
SPECIFICATION FairSpec
INVARIANTS TypeOK IssuedRemembered ExitsFlushed
PROPERTY ClosesEventually
