SPECIFICATION Spec
CONSTANTS
  home = home
  daily = daily
  None = None
  Leaves = {daily, home}
  ReturnTypes = {daily}
  Recurring = {daily}
  StartDay <- MCStartDay
  EndDay <- MCEndDay
  LastTick = 4
  MaxTaps = 2
INVARIANTS TypeOK OneSession SessionIsOut CredentialBacked DailyReturnsBounded
PROPERTIES EndedStaysEnded RefinesPresence
CHECK_DEADLOCK FALSE
