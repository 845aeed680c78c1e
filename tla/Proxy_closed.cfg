CONSTANTS
  c1 = c1 c2 = c2 r1 = r1 r2 = r2
  Boxes = {b1}
  Clients = {c1, c2}
  Uids = {u1}
  Reqs = {r1, r2}
  ReqUid <- MCReqUid
  Workers = {w1, w2}
  Nobody = Nobody
  NoUid = NoUid
  Unruly = {"box leaves"}
SPECIFICATION FairSpec
PROPERTY ClosedIsCancelled
CHECK_DEADLOCK FALSE
