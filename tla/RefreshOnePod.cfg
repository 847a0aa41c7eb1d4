SPECIFICATION Spec
CONSTANTS
  lotl = lotl  nat = nat  sub = sub  moz = moz
  c1 = c1  c2 = c2  pod1 = pod1  pod2 = pod2
  Never = Never
  NoList = NoList
  Pods = {pod1}
  Uris = {lotl, nat, moz}
  Certs = {c1, c2}
  ParentLists <- MCBothParents
  MozillaLists = {moz}
  Offers <- MCOffers
  Pointers <- MCPointers
  FetchInterval = 2
  MaxClock = 2
  InProduction = TRUE
  Faults = {"crash", "http", "lists", "anchors"}
INVARIANT TypeOK
INVARIANT AttributedToSource
INVARIANT CleanLaunchIsFresh
INVARIANT ForcedLaunchRepairsParents
