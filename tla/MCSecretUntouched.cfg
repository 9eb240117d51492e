\* Two request threads save forms of one secret and one other field; two values of
\* each.
CONSTANTS
  Savers = {t1, t2}
  Values = {v1, v2}
  Absent = Absent
  Mask = Mask
  Names = {n1}
  Empty = Empty
  Mixed = Mixed
SPECIFICATION SettingsSpec
INVARIANTS SentinelKeepsStored
CHECK_DEADLOCK FALSE
