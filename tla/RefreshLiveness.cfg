SPECIFICATION FairSpec
CONSTANTS
  lotl = lotl  nat = nat  sub = sub  moz = moz
  c1 = c1  c2 = c2  pod1 = pod1  pod2 = pod2
  Never = Never
  NoList = NoList
  Pods = {pod1}
  Uris = {lotl, nat, sub}
  Certs = {c1, c2}
  ParentLists <- MCEidasParent
  MozillaLists = {}
  Offers <- MCOffers
  Pointers <- MCPointers
  FetchInterval = 1
  MaxClock = 1
  InProduction = FALSE
  Faults = {"http", "lists"}
INVARIANT CleanLaunchIsFresh
INVARIANT NothingSeenIsLost
PROPERTY ImplementsCollection
PROPERTY DownloadedIsStored
PROPERTY LaunchSettles
