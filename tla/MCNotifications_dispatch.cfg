SPECIFICATION Spec
CONSTANTS
  Rows = {reminder, oldApproved}
  Reminders = {reminder}
  Legacy = {oldApproved}
  Dispatchers = {d1}
  Commands = {c1}
  Workers = {w1, w2}
  BatchSize = 1
  MaxAttempts = 2
  MailEnabled = TRUE
  MaxFaults = 1
  None = None
SYMMETRY Alike
INVARIANTS IndInv CompletedIsProcessed NoNeedlessResend HonestOutcome
PROPERTIES ProcessedIsFinal JobKeptUntilProcessed
