SPECIFICATION Spec
CONSTANTS
  Runs = {r1, r2, r3}
  NoFile = NoFile
INVARIANTS TypeOK ForcedConfigIsWhole SuccessMeansUsable ConfigNeverLost
PROPERTIES NothingReplacedUnasked
CHECK_DEADLOCK FALSE
