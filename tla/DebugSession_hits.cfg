SPECIFICATION Spec
CONSTANTS
  Threads = {t1, t2}
  Calls = {c1, c2}
  Sessions = {s1, s2}
  Nobody = Nobody
  MaxHalts = 3
  MaxStarts = 2
  MaxCalls = 3
  MaxTrouble = 2
SYMMETRY Alike
INVARIANT TypeOK
INVARIANT HitPerHalt
INVARIANT EveryHitIsTold
INVARIANT SettledWhenFree
CHECK_DEADLOCK FALSE
