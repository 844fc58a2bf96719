SPECIFICATION MCSpec
CONSTANTS
  e1 = e1  e2 = e2  v1 = v1  v2 = v2  i1 = i1  i2 = i2  t1 = t1  t2 = t2
  p1 = p1  p2 = p2  p3 = p3  a1 = a1  a2 = a2  n1 = n1  n2 = n2  s1 = s1  s2 = s2
  Absent = Absent
  Listed = Listed
  None = None
  Editors = {e1, e2}
  Values = {v1, v2}
  MaxVersion = 3
  Items = {i1, i2}
  Types = {t1, t2}
  TypeOf <- MCTypeOf
  MaxNsVersion = 5
  Pods = {p1, p2, p3}
  SortOf <- MCSortOf
  Arrivals = 3
  Admins = {a1, a2}
  HpaNames = {n1, n2}
  Specs = {s1, s2}
  Objects = 6
  Born <- MCBorn
SYMMETRY MCSymmetry
INVARIANT UndoWorks
CHECK_DEADLOCK FALSE
