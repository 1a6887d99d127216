SPECIFICATION Spec
CONSTANTS
  r1 = r1
  r2 = r2
  t1 = t1
  t2 = t2
  k1 = k1
  k2 = k2
  u1 = u1
  NoOne = NoOne
  Absent = Absent
  la = la
  Unset = Unset
  Requests = {r1, r2}
  Texts = {t1}
  Kinds = {k1}
  Statuses = {"Draft", "Review"}
  Reviewers = {u1}
  Languages = {Unset}
  Endpoints = {"import", "upsert"}
  MaxLog = 1
SYMMETRY RequestSymmetry
INVARIANTS
  LogMatchesStatus
