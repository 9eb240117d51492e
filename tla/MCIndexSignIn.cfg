\* Two request threads, a run of up to two URLs and a second run or a retry,
\* checked in up to two tabs; two devices, two sessions, two secrets, one backup
\* code and three passwords.
CONSTANTS
  u1 = u1
  u2 = u2
  q1 = q1
  q2 = q2
  k1 = k1
  k2 = k2
  c1 = c1
  Urls = {u1, u2}
  Limit = 2
  Tabs = 2
  Requests = {q1, q2}
  MaxRuns = 2
  Devices = {q1, q2}
  Sids = {u1, u2}
  Secrets = {k1, k2}
  Codes = {c1}
  None = None
  MaxPassword = 3
SYMMETRY Symmetry
SPECIFICATION MCSpec
INVARIANTS
  OneIndexRun
  LiveMirrorsRun
  OldPasswordOut
  CodeOnce
  EnabledSecretProved
PROPERTIES
  RetryKeepsOthers
  ImplementsRunSlot
  ChangeIsSerial
