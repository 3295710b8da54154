\* Two threads in JTSGeomFromWKT / JTSGeomFromWKB / JTSGeomToWKB at once.
CONSTANTS
  t1 = t1
  t2 = t2
  d1 = d1
  d2 = d2
  Threads <- MCThreads
  Data <- MCData
  Steps = 2
SPECIFICATION Spec
SYMMETRY ThreadSymmetry
INVARIANT OwnDataOnly
