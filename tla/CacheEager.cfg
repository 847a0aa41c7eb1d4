SPECIFICATION Spec
CONSTANTS
  pod1 = pod1  pod2 = pod2
  r1 = r1  r2 = r2  r3 = r3
  c1 = c1  c2 = c2
  Unset = Unset
  Pods = {pod1, pod2}
  Requests = {r1, r2, r3}
  PodOf <- MCPodOf
  RootsOf <- MCRootsOf
  Certs = {c1, c2}
  Parsable = {c1, c2}
  EagerCache = TRUE
  Faults = {"crash", "reads"}
INVARIANT TypeOK
INVARIANT CacheSound
INVARIANT AnswersSound
INVARIANT EagerNeverMisses
INVARIANT AnswersAgree
