SPECIFICATION FairSpec
CONSTANTS
  t1 = t1
  r1 = r1
  r2 = r2
  a1 = a1
  a2 = a2
  NoJob = NoJob
  NoResult = NoResult
  Token = {t1}
  Request = {r1, r2}
  MaxStops = 2
  MaxLapses = 1
PROPERTIES
  ValidationsEnd
  ForecastsEnd
