SPECIFICATION Spec
CONSTANTS
  c1 = c1  c2 = c2
  Certs = {c1, c2}
  NoCert = NoCert
  Documents <- MCDocuments
INVARIANT TypeOK
INVARIANT ReturnsReadable
CHECK_DEADLOCK FALSE
