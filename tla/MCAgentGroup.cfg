\* The same agent: every way in which the server gives it up.
SPECIFICATION Spec
CONSTANTS
    Helpers = {h1, h2}
INVARIANTS
    GroupTerminated
CHECK_DEADLOCK FALSE
