SPECIFICATION Spec
CONSTANTS
  lotl = lotl  nat = nat  sub = sub  moz = moz
  c1 = c1  c2 = c2  pod1 = pod1  pod2 = pod2
  Never = Never
  NoList = NoList
  Pods = {pod1, pod2}
  Uris = {lotl, nat}
  Certs = {c1, c2}
  ParentLists <- MCEidasParent
  MozillaLists = {}
  Offers <- MCNestedOffers
  Pointers <- MCPointers
  FetchInterval = 1
  MaxClock = 1
  InProduction = TRUE
  Faults = {}
INVARIANT NoReentry
INVARIANT NothingSeenIsLost
PROPERTY ImplementsCollection
SYMMETRY PodSymmetry
