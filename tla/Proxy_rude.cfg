CONSTANTS
  c1 = c1 c2 = c2 r1 = r1 r2 = r2
  Boxes = {b1, b2}
  Clients = {c1, c2}
  Uids = {u1}
  Reqs = {r1, r2}
  ReqUid <- MCReqUid
  Workers = {w1, w2}
  Nobody = Nobody
  NoUid = NoUid
  Unruly = {"client pipelines", "box leaves", "box errs"}
SPECIFICATION Spec
INVARIANTS RegistryAgrees AnswerOwn
SYMMETRY MCSymmetry
CHECK_DEADLOCK FALSE
