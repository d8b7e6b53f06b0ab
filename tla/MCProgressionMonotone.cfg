SPECIFICATION ProgressionSpec
CONSTANTS
  k1 = k1
  r1 = r1
  r2 = r2
  a = a
  b = b
  NoKey = NoKey
  NoRecord = NoRecord
  Keys = {k1}
  Requests = {r1, r2}
  Positions = {a, b}
  Devices = {a, b}
  Times = {1, 2, 3}
  Serial = {}
PROPERTY
  TimestampsMonotone
