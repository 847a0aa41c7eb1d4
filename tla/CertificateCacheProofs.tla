----------------------- MODULE CertificateCacheProofs -----------------------
(***************************************************************************)
(* Proofs about CertificateCache, for every number of pods, requests and   *)
(* certificates.                                                           *)
(*                                                                         *)
(* The invariant that carries them follows a set of certificates through   *)
(* the steps of a fill: what the pod knew of the database when its launch  *)
(* had refreshed the lists is in what was read, what was read is in the    *)
(* cache, and what is in the cache is still in the database.  Two other    *)
(* facts hold it together: a pod has nothing in its cache before it is up, *)
(* and no request survives its pod.                                        *)
(***************************************************************************)
EXTENDS CertificateCache, TLAPS

PodInv(p) ==
  /\ known[p] \subseteq store
  /\ phase[p] # "up" => cache[p] = Unset
  /\ phase[p] = "fill" => known[p] \subseteq booted[p] /\ booted[p] \subseteq store
  /\ cache[p] # Unset => known[p] \subseteq cache[p] /\ cache[p] \subseteq store

ReqInv(r) ==
  /\ stage[r] # "idle" => phase[PodOf[r]] = "up"
  /\ stage[r] \in {"set", "verify"} =>
       known[PodOf[r]] \subseteq trusted[r] /\ trusted[r] \subseteq store
  /\ stage[r] = "accepted" => RootsOf[r] \cap store # {}
  /\ stage[r] = "denied" => RootsOf[r] \cap known[PodOf[r]] = {}

CacheInv ==
  /\ TypeOK
  /\ \A p \in Pods : PodInv(p)
  /\ \A r \in Requests : ReqInv(r)

-----------------------------------------------------------------------------
(* Type correctness *)

LEMMA TypeInit == Init => TypeOK
  BY DEF Init, TypeOK

LEMMA TypeNext == TypeOK /\ [Next]_vars => TypeOK'
  <1> SUFFICES ASSUME TypeOK, [Next]_vars PROVE TypeOK'
    OBVIOUS
  <1> USE ConstantsAssumption
  <1>1. ASSUME NEW p \in Pods, Launch(p) PROVE TypeOK'
    BY <1>1 DEF TypeOK, Launch, Enter, reqVars
  <1>2. ASSUME NEW p \in Pods, Refresh(p) PROVE TypeOK'
    BY <1>2 DEF TypeOK, Refresh, podVars, reqVars
  <1>3. ASSUME NEW p \in Pods, Bootstrap(p) PROVE TypeOK'
    BY <1>3 DEF TypeOK, Bootstrap, Enter, reqVars
  <1>4. ASSUME NEW p \in Pods, BootRead(p) PROVE TypeOK'
    BY <1>4 DEF TypeOK, BootRead, Enter, reqVars
  <1>5. ASSUME NEW p \in Pods, BootFill(p) PROVE TypeOK'
    BY <1>5 DEF TypeOK, BootFill, Enter, reqVars
  <1>6. ASSUME NEW p \in Pods, Die(p) PROVE TypeOK'
    BY <1>6 DEF TypeOK, Die, Enter
  <1>7. ASSUME NEW r \in Requests, Ask(r) PROVE TypeOK'
    BY <1>7 DEF TypeOK, Ask, Reach, Answers, podVars
  <1>8. ASSUME NEW r \in Requests, Get(r) PROVE TypeOK'
    BY <1>8 DEF TypeOK, Get, Reach, podVars
  <1>9. ASSUME NEW r \in Requests, Read(r) PROVE TypeOK'
    BY <1>9 DEF TypeOK, Read, Reach, podVars
  <1>10. ASSUME NEW r \in Requests, Fill(r) PROVE TypeOK'
    BY <1>10 DEF TypeOK, Fill, Reach
  <1>11. ASSUME NEW r \in Requests, FillFails(r) PROVE TypeOK'
    BY <1>11 DEF TypeOK, FillFails, Reach, Answers, podVars
  <1>12. ASSUME NEW r \in Requests, Verify(r) PROVE TypeOK'
    BY <1>12 DEF TypeOK, Verify, Reach, Answers, Verdicts, podVars
  <1>13. CASE UNCHANGED vars
    BY <1>13 DEF TypeOK, vars, podVars, reqVars
  <1> QED
    BY <1>1, <1>2, <1>3, <1>4, <1>5, <1>6, <1>7, <1>8, <1>9, <1>10, <1>11, <1>12, <1>13
    DEF Next, Boot, BootFails, Crash, Serve

\* The variables keep their types, whatever the interleaving of launches, fills,
\* crashes and requests.
THEOREM TypeCorrect == Spec => []TypeOK
  BY TypeInit, TypeNext, PTL DEF Spec

-----------------------------------------------------------------------------
(* What a pod caches *)

LEMMA CacheInit == Init => CacheInv
  BY TypeInit, ConstantsAssumption DEF Init, CacheInv, PodInv, ReqInv

LEMMA CacheNext == CacheInv /\ [Next]_vars => CacheInv'
  <1> SUFFICES ASSUME CacheInv, [Next]_vars PROVE CacheInv'
    OBVIOUS
  <1> USE ConstantsAssumption
  <1>0. TypeOK /\ TypeOK'
    BY TypeNext DEF CacheInv
  <1>1. ASSUME NEW p \in Pods, Launch(p) PROVE CacheInv'
    <2>1. \A q \in Pods : PodInv(q)'
      BY <1>0, <1>1 DEF CacheInv, TypeOK, PodInv, Launch, Enter
    <2>2. \A r \in Requests : ReqInv(r)'
      BY <1>0, <1>1 DEF CacheInv, TypeOK, ReqInv, Launch, Enter, reqVars
    <2> QED
      BY <1>0, <2>1, <2>2 DEF CacheInv
  <1>2. ASSUME NEW p \in Pods, Refresh(p) PROVE CacheInv'
    <2>1. \A q \in Pods : PodInv(q)'
      BY <1>0, <1>2 DEF CacheInv, TypeOK, PodInv, Refresh, podVars
    <2>2. \A r \in Requests : ReqInv(r)'
      BY <1>0, <1>2 DEF CacheInv, TypeOK, ReqInv, Refresh, podVars, reqVars
    <2> QED
      BY <1>0, <2>1, <2>2 DEF CacheInv
  <1>3. ASSUME NEW p \in Pods, Bootstrap(p) PROVE CacheInv'
    <2>1. \A q \in Pods : PodInv(q)'
      BY <1>0, <1>3 DEF CacheInv, TypeOK, PodInv, Bootstrap, Enter
    <2>2. \A r \in Requests : ReqInv(r)'
      BY <1>0, <1>3 DEF CacheInv, TypeOK, ReqInv, Bootstrap, Enter, reqVars
    <2> QED
      BY <1>0, <2>1, <2>2 DEF CacheInv
  <1>4. ASSUME NEW p \in Pods, BootRead(p) PROVE CacheInv'
    <2>1. \A q \in Pods : PodInv(q)'
      BY <1>0, <1>4 DEF CacheInv, TypeOK, PodInv, BootRead, Enter
    <2>2. \A r \in Requests : ReqInv(r)'
      BY <1>0, <1>4 DEF CacheInv, TypeOK, ReqInv, BootRead, Enter, reqVars
    <2> QED
      BY <1>0, <2>1, <2>2 DEF CacheInv
  <1>5. ASSUME NEW p \in Pods, BootFill(p) PROVE CacheInv'
    <2>1. \A q \in Pods : PodInv(q)'
      BY <1>0, <1>5 DEF CacheInv, TypeOK, PodInv, BootFill, Enter
    <2>2. \A r \in Requests : ReqInv(r)'
      BY <1>0, <1>5 DEF CacheInv, TypeOK, ReqInv, BootFill, Enter, reqVars
    <2> QED
      BY <1>0, <2>1, <2>2 DEF CacheInv
  <1>6. ASSUME NEW p \in Pods, Die(p) PROVE CacheInv'
    <2>1. \A q \in Pods : PodInv(q)'
      BY <1>0, <1>6 DEF CacheInv, TypeOK, PodInv, Die, Enter
    <2>2. \A r \in Requests : ReqInv(r)'
      BY <1>0, <1>6 DEF CacheInv, TypeOK, ReqInv, Die, Enter
    <2> QED
      BY <1>0, <2>1, <2>2 DEF CacheInv
  <1>7. ASSUME NEW r \in Requests, Ask(r) PROVE CacheInv'
    <2>1. \A q \in Pods : PodInv(q)'
      BY <1>7 DEF CacheInv, PodInv, Ask, podVars
    <2>2. \A q \in Requests : ReqInv(q)'
      BY <1>0, <1>7 DEF CacheInv, TypeOK, ReqInv, Ask, Reach, podVars
    <2> QED
      BY <1>0, <2>1, <2>2 DEF CacheInv
  <1>8. ASSUME NEW r \in Requests, Get(r) PROVE CacheInv'
    <2>1. \A q \in Pods : PodInv(q)'
      BY <1>8 DEF CacheInv, PodInv, Get, podVars
    <2>2. \A q \in Requests : ReqInv(q)'
      BY <1>0, <1>8 DEF CacheInv, TypeOK, PodInv, ReqInv, Get, Reach, podVars
    <2> QED
      BY <1>0, <2>1, <2>2 DEF CacheInv
  <1>9. ASSUME NEW r \in Requests, Read(r) PROVE CacheInv'
    <2>1. \A q \in Pods : PodInv(q)'
      BY <1>9 DEF CacheInv, PodInv, Read, podVars
    <2>2. \A q \in Requests : ReqInv(q)'
      BY <1>0, <1>9 DEF CacheInv, TypeOK, PodInv, ReqInv, Read, Reach, podVars
    <2> QED
      BY <1>0, <2>1, <2>2 DEF CacheInv
  <1>10. ASSUME NEW r \in Requests, Fill(r) PROVE CacheInv'
    <2>1. \A q \in Pods : PodInv(q)'
      BY <1>0, <1>10 DEF CacheInv, TypeOK, PodInv, ReqInv, Fill
    <2>2. \A q \in Requests : ReqInv(q)'
      BY <1>0, <1>10 DEF CacheInv, TypeOK, ReqInv, Fill, Reach
    <2> QED
      BY <1>0, <2>1, <2>2 DEF CacheInv
  <1>11. ASSUME NEW r \in Requests, FillFails(r) PROVE CacheInv'
    <2>1. \A q \in Pods : PodInv(q)'
      BY <1>11 DEF CacheInv, PodInv, FillFails, podVars
    <2>2. \A q \in Requests : ReqInv(q)'
      BY <1>0, <1>11 DEF CacheInv, TypeOK, ReqInv, FillFails, Reach, podVars
    <2> QED
      BY <1>0, <2>1, <2>2 DEF CacheInv
  <1>12. ASSUME NEW r \in Requests, Verify(r) PROVE CacheInv'
    <2>1. \A q \in Pods : PodInv(q)'
      BY <1>12 DEF CacheInv, PodInv, Verify, podVars
    <2>2. \A q \in Requests : ReqInv(q)'
      BY <1>0, <1>12 DEF CacheInv, TypeOK, ReqInv, Verify, Reach, podVars
    <2> QED
      BY <1>0, <2>1, <2>2 DEF CacheInv
  <1>13. CASE UNCHANGED vars
    BY <1>0, <1>13 DEF CacheInv, PodInv, ReqInv, vars, podVars, reqVars
  <1> QED
    BY <1>1, <1>2, <1>3, <1>4, <1>5, <1>6, <1>7, <1>8, <1>9, <1>10, <1>11, <1>12, <1>13
    DEF Next, Boot, BootFails, Crash, Serve

LEMMA CacheInvariant == Spec => []CacheInv
  BY CacheInit, CacheNext, PTL DEF Spec

\* What a pod has cached is stored, and holds at least what was stored when its
\* own launch was done refreshing: concurrent fills may overwrite each other, but
\* none of them takes the cache back behind the launch.
THEOREM CacheCorrect == Spec => []CacheSound
  <1>1. CacheInv => CacheSound
    BY DEF CacheInv, PodInv, CacheSound
  <1> QED
    BY <1>1, CacheInvariant, PTL

\* No chain is accepted but against a stored trust anchor.
THEOREM AnswersCorrect == Spec => []AnswersSound
  <1>1. CacheInv => AnswersSound
    BY DEF CacheInv, ReqInv, AnswersSound
  <1> QED
    BY <1>1, CacheInvariant, PTL

\* The engine turns no chain down that verifies against an anchor stored when the
\* pod came up, under all faults: what a fill has read is never less than that.
THEOREM DenialsCorrect == Spec => []NoFalseDenial
  <1>1. CacheInv => NoFalseDenial
    BY DEF CacheInv, ReqInv, NoFalseDenial
  <1> QED
    BY <1>1, CacheInvariant, PTL

-----------------------------------------------------------------------------
(* The eager cache *)

\* With the eager cache the entry is there when the pod comes up and never
\* changes: what a request has read is what is cached now.
EagerInv ==
  EagerCache =>
    /\ \A p \in Pods : phase[p] = "up" => cache[p] # Unset
    /\ \A r \in Requests :
         /\ stage[r] \notin {"read", "set"}
         /\ stage[r] = "verify" => trusted[r] = cache[PodOf[r]]
         /\ stage[r] = "accepted" => RootsOf[r] \cap cache[PodOf[r]] # {}
         /\ stage[r] = "denied" => RootsOf[r] \cap cache[PodOf[r]] = {}

LEMMA EagerInit == Init => EagerInv
  BY DEF Init, EagerInv

LEMMA EagerNext == EagerInv /\ CacheInv /\ [Next]_vars => EagerInv'
  <1> SUFFICES ASSUME EagerCache, EagerInv, CacheInv, [Next]_vars PROVE EagerInv'
    BY DEF EagerInv
  <1> USE ConstantsAssumption
  <1>0. /\ TypeOK
        /\ \A r \in Requests : stage[r] # "idle" => phase[PodOf[r]] = "up"
    BY DEF CacheInv, ReqInv
  <1>1. ASSUME NEW p \in Pods, Launch(p) \/ Refresh(p) \/ BootRead(p) PROVE EagerInv'
    BY <1>0, <1>1 DEF EagerInv, TypeOK, Launch, Refresh, BootRead, Enter, podVars, reqVars
  <1>2. ASSUME NEW p \in Pods, Bootstrap(p) PROVE EagerInv'
    BY <1>0, <1>2 DEF EagerInv, TypeOK, Bootstrap, Enter, reqVars
  <1>3. ASSUME NEW p \in Pods, BootFill(p) PROVE EagerInv'
    BY <1>0, <1>3 DEF EagerInv, TypeOK, BootFill, Enter, reqVars
  <1>4. ASSUME NEW p \in Pods, Die(p) PROVE EagerInv'
    BY <1>0, <1>4 DEF EagerInv, TypeOK, Die, Enter
  <1>5. ASSUME NEW r \in Requests, Ask(r) PROVE EagerInv'
    BY <1>0, <1>5 DEF EagerInv, TypeOK, Ask, Reach, podVars
  <1>6. ASSUME NEW r \in Requests, Get(r) PROVE EagerInv'
    BY <1>0, <1>6 DEF EagerInv, TypeOK, Get, Reach, podVars
  <1>7. ASSUME NEW r \in Requests, Read(r) \/ Fill(r) \/ FillFails(r) PROVE FALSE
    BY <1>7 DEF EagerInv, Read, Fill, FillFails
  <1>8. ASSUME NEW r \in Requests, Verify(r) PROVE EagerInv'
    BY <1>0, <1>8 DEF EagerInv, TypeOK, Verify, Reach, podVars
  <1>9. CASE UNCHANGED vars
    BY <1>9 DEF EagerInv, vars, podVars, reqVars
  <1> QED
    BY <1>1, <1>2, <1>3, <1>4, <1>5, <1>6, <1>7, <1>8, <1>9
    DEF Next, Boot, BootFails, Crash, Serve

LEMMA EagerInvariant == Spec => []EagerInv
  <1>1. Init => CacheInv /\ EagerInv
    BY CacheInit, EagerInit
  <1>2. (CacheInv /\ EagerInv) /\ [Next]_vars => (CacheInv /\ EagerInv)'
    BY CacheNext, EagerNext
  <1> QED
    BY <1>1, <1>2, PTL DEF Spec

\* With the eager cache no request reads the database: the bootstrap has filled
\* the cache before the pod serves, and the entry stays as long as the pod.
THEOREM EagerCorrect == Spec => []EagerNeverMisses
  <1>1. EagerInv => EagerNeverMisses
    BY DEF EagerInv, EagerNeverMisses
  <1> QED
    BY <1>1, EagerInvariant, PTL

\* With the eager cache two requests for the same anchors get the same verdict
\* from a pod, whatever is stored between them.
THEOREM AgreementCorrect == Spec => []AnswersAgree
  <1>1. EagerInv => AnswersAgree
    BY DEF EagerInv, AnswersAgree, Verdicts
  <1> QED
    BY <1>1, EagerInvariant, PTL
=============================================================================
