SPECIFICATION FairSpec
CONSTANTS
  Bookings = {1, 2}
  Departures = {1, 2}
  BatchSize = 1
  MaxFaults = 2
  None = None
PROPERTIES ComesRound DeparturesSettle
