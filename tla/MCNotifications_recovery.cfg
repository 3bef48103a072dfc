SPECIFICATION FairSpec
CONSTANTS
  Rows = {approved, reminder}
  Reminders = {reminder}
  Legacy = {}
  Dispatchers = {d1}
  Commands = {}
  Workers = {w1}
  BatchSize = 1
  MaxAttempts = 2
  MailEnabled = FALSE
  MaxFaults = 3
  None = None
PROPERTIES Recovered
