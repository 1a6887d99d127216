SPECIFICATION Spec
CONSTANTS
  r1 = r1
  r2 = r2
  t1 = t1
  t2 = t2
  k1 = k1
  k2 = k2
  u1 = u1
  NoOne = NoOne
  Absent = Absent
  la = la
  Unset = Unset
  Requests = {r1, r2}
  Texts = {t1, t2}
  Kinds = {k1, k2}
  Statuses = {"Draft", "Review", "Live"}
  Reviewers = {u1}
  Languages = {Unset}
  Endpoints = {"import", "transition", "bulk", "delete"}
  MaxLog = 2
SYMMETRY RequestSymmetry
INVARIANTS
  AssigneeOnlyInReview
  FromWasReal
PROPERTIES
  AllAudited
