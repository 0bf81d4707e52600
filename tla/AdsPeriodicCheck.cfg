CONSTANTS
  Errors = {18}
  LongOutages = TRUE
  FileErrors = FALSE
  nRequest = 0
  MaxEvents = 1
SPECIFICATION FairSpec
PROPERTY UpdateNoticed
