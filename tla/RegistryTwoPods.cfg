SPECIFICATION Spec
CONSTANTS
  lotl = lotl  other = other  c1 = c1  c2 = c2  pod1 = pod1  pod2 = pod2  r1 = r1  r2 = r2
  Never = Never
  NoList = NoList
  Unset = Unset
  Pods = {pod1, pod2}
  Uris = {lotl, other}
  Certs = {c1, c2}
  ParentLists <- MCParents
  MozillaLists = {}
  Offers <- MCOffers
  Pointers <- MCPointers
  FetchInterval = 1
  MaxClock = 1
  Requests = {r1, r2}
  PodOf <- MCPodOf
  RootsOf <- MCRootsOf
  Parsable = {c1, c2}
  NodeEnv = "production"
  Faults = {"crash", "anchors", "reads"}
INVARIANT TypeOK
INVARIANT DownloadedIsTrusted
INVARIANT AcceptedIsOffered
PROPERTY CacheComponent
