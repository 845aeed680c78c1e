CONSTANTS
  o1 = o1 o2 = o2 p1 = p1 p2 = p2 p3 = p3 m1 = m1
  Objects = {o1, o2}
  Ptrs = {p1, p2, p3, m1}
  Threads = {t1, t2}
  Null = Null
  NoPtr = NoPtr
  In <- MCIn
  Fits <- MCMisfits
SPECIFICATION Spec
INVARIANT NoDangling
