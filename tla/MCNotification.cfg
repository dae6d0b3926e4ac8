SPECIFICATION FairSpec
CONSTANTS
  w1 = w1
  w2 = w2
  mail = mail
  sms = sms
  slack = slack
  Workers = {w1, w2}
  Recipients = {mail, sms, slack}
  Plans <- MCPlans
  Dead = {slack}
  None = None
  MaxAttempts = 4
  MaxTroubles = 3
INVARIANTS TypeOK DoneMeansSent LoggedIsNotRepeated
PROPERTIES HealthyAreReached
CHECK_DEADLOCK FALSE
