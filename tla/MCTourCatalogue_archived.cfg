SPECIFICATION Spec
CONSTANTS
  Requests = {r1, r2}
  c1 = c1  c2 = c2
  Categories = {c1, c2}
  Tours = {t1}
  Prices <- PriceList
  TourInputs <- Edits
  Quantities = {1, 3}
  MaxServed = 4
  MaxAmount = 2000
  None = None
PROPERTIES ArchivedGetsNoDeparture
