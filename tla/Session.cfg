\* One tab, two of its calls, two sessions to sign in to, one upset.
SPECIFICATION SessionSpec
CONSTANTS
  Session = {s1, s2}
  ApiCall = {c1, c2}
  NoToken = NoToken
  MaxUpsets = 1
INVARIANTS SessionTypeOK OwnRefreshesNeverCollide
PROPERTIES TabComesToRest
CHECK_DEADLOCK FALSE
