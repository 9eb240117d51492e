\* Three users, two requests at a time and two links.
CONSTANTS
  u1 = u1
  u2 = u2
  u3 = u3
  r1 = r1
  r2 = r2
  l1 = l1
  l2 = l2
  Nobody = Nobody
  Users = {u1, u2, u3}
  Requests = {r1, r2}
  Links = {l1, l2}
  EnvAdmin = FALSE
SPECIFICATION Spec
INVARIANTS
  LastAdminKept
  UsedOnce
PROPERTIES
  ImplementsBook
SYMMETRY Symmetry
