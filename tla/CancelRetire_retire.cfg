SPECIFICATION Spec
CONSTANTS
  Length0 = 2
  MaxEvents = 2
INVARIANT TypeOK
INVARIANT RetiredAreGone
INVARIANT NoWorkGivenBack
PROPERTY EditsHitTheirTargets
CHECK_DEADLOCK FALSE
