-------------------------- MODULE CertificateCache --------------------------
(***************************************************************************)
(* The cache of trust anchor certificates that every registry pod keeps in *)
(* its memory (TrustAnchorService), from the launch of the pod through the *)
(* chain validation requests that read the cache, and fill it on demand    *)
(* where the bootstrap did not.                                            *)
(*                                                                         *)
(* All pods share the database.  It grows while a pod refreshes the lists  *)
(* in its launch; here that is the action Refresh, module ListRefresh has  *)
(* the detail.  A fill of the cache is a read of the database, a parse of  *)
(* all it returned and a write to the cache, with other steps in between.  *)
(***************************************************************************)
EXTENDS Integers, FiniteSets

CONSTANTS
  Pods,          \* processes that run the service over one database
  Requests,      \* chain validation requests, each may be sent repeatedly
  PodOf,         \* PodOf[r]: the pod that gets request r
  RootsOf,       \* RootsOf[r]: the trust anchors that the chain of r verifies
                 \* against, in one of the two orders that are tried
  Certs,         \* certificates a list may hold
  Parsable,      \* those that are well-formed X509 certificates
  EagerCache,    \* NODE_ENV is neither development nor test
  Faults,        \* which kinds of failure happen, see FaultKinds
  Unset          \* "the cache key is not set"

\* A pod is killed; a read of the database fails.
FaultKinds == {"crash", "reads"}

ASSUME ConstantsAssumption ==
  /\ PodOf \in [Requests -> Pods]
  /\ RootsOf \in [Requests -> SUBSET Certs]
  /\ Parsable \subseteq Certs
  /\ EagerCache \in BOOLEAN
  /\ Faults \subseteq FaultKinds
  /\ \A s \in SUBSET Certs : s # Unset

VARIABLES
  store,    \* the certificates of the trust anchor documents
  phase,    \* phase[p]: where pod p is in its life
  cache,    \* cache[p]: the value under TRUST_ANCHOR_CERTIFICATES_CACHE_KEY
  booted,   \* booted[p]: what the bootstrap of p has read of the database
  stage,    \* stage[r]: where request r is, or how it was answered
  trusted,  \* trusted[r]: what r has read, of the database or of the cache
  known     \* history: the store when the launch of p was done with its refresh

podVars == <<phase, cache, booted, known>>
reqVars == <<stage, trusted>>
vars == <<store, podVars, reqVars>>

\* The verdict of the validation engine; or "could not be validated".
Verdicts == {"accepted", "denied"}
Answers == Verdicts \cup {"failed"}

TypeOK ==
  /\ store \subseteq Certs
  /\ phase \in [Pods -> {"down", "refresh", "boot", "fill", "up"}]
  /\ cache \in [Pods -> {Unset} \cup SUBSET Certs]
  /\ booted \in [Pods -> SUBSET Certs]
  /\ known \in [Pods -> SUBSET Certs]
  /\ stage \in [Requests -> {"idle", "get", "read", "set", "verify"} \cup Answers]
  /\ trusted \in [Requests -> SUBSET Certs]

Init ==
  /\ store = {}
  /\ phase = [p \in Pods |-> "down"]
  /\ cache = [p \in Pods |-> Unset]
  /\ booted = [p \in Pods |-> {}]
  /\ known = [p \in Pods |-> {}]
  /\ stage = [r \in Requests |-> "idle"]
  /\ trusted = [r \in Requests |-> {}]

-----------------------------------------------------------------------------
(* The life of a pod *)

Enter(p, ph) == phase' = [phase EXCEPT ![p] = ph]

\* A new process with an empty cache; its hook onModuleInit runs.
Launch(p) ==
  /\ phase[p] = "down"
  /\ Enter(p, "refresh")
  /\ UNCHANGED <<store, cache, booted, known, reqVars>>

\* onModuleInit stores certificates of the lists, see ListRefresh.
Refresh(p) ==
  /\ phase[p] = "refresh"
  /\ \E c \in Certs \ store : store' = store \cup {c}
  /\ UNCHANGED <<podVars, reqVars>>

\* Mutants: the pod does not wait for the bootstrap, or the fill not for its
\* read of the database.
BootstrapInBackground(p) ==
  /\ phase[p] = "refresh"
  /\ Enter(p, "up")
  /\ known' = [known EXCEPT ![p] = store]
  /\ UNCHANGED <<store, cache, booted, reqVars>>
BootstrapUnread(p) ==
  /\ phase[p] = "refresh"
  /\ Enter(p, IF EagerCache THEN "fill" ELSE "up")
  /\ known' = [known EXCEPT ![p] = store]
  /\ UNCHANGED <<store, cache, booted, reqVars>>

\* onModuleInit is done and onApplicationBootstrap runs: in development and
\* test it returns at once and the pod serves requests, otherwise it clears the
\* cache key.
Bootstrap(p) ==
  /\ phase[p] = "refresh"
  /\ Enter(p, IF EagerCache THEN "boot" ELSE "up")
  /\ cache' = IF EagerCache THEN [cache EXCEPT ![p] = Unset] ELSE cache
  /\ known' = [known EXCEPT ![p] = store]
  /\ UNCHANGED <<store, booted, reqVars>>

\* cacheAllTrustAnchorCertificates at bootstrap: read the database ...
BootRead(p) ==
  /\ phase[p] = "boot"
  /\ Enter(p, "fill")
  /\ booted' = [booted EXCEPT ![p] = store]
  /\ UNCHANGED <<store, cache, known, reqVars>>

\* Mutant: the list of certificates is cached as the element of a list.
BootFillNested(p) ==
  /\ phase[p] = "fill"
  /\ booted[p] \subseteq Parsable
  /\ Enter(p, "up")
  /\ cache' = [cache EXCEPT ![p] = {booted[p]}]
  /\ UNCHANGED <<store, booted, known, reqVars>>

\* ... parse all of it and set the cache; the pod begins to serve requests.
BootFill(p) ==
  /\ phase[p] = "fill"
  /\ booted[p] \subseteq Parsable
  /\ Enter(p, "up")
  /\ cache' = [cache EXCEPT ![p] = booted[p]]
  /\ UNCHANGED <<store, booted, known, reqVars>>

\* The process ends and its memory and its requests are gone.
Die(p) ==
  /\ Enter(p, "down")
  /\ cache' = [cache EXCEPT ![p] = Unset]
  /\ booted' = [booted EXCEPT ![p] = {}]
  /\ stage' = [r \in Requests |-> IF PodOf[r] = p THEN "idle" ELSE stage[r]]
  /\ trusted' = [r \in Requests |-> IF PodOf[r] = p THEN {} ELSE trusted[r]]
  /\ UNCHANGED <<store, known>>

\* The read or the parse throws: the rejected hook ends the process.
BootFails(p) ==
  /\ \/ phase[p] = "boot" /\ "reads" \in Faults
     \/ phase[p] = "fill" /\ ~(booted[p] \subseteq Parsable)
  /\ Die(p)

\* The pod is killed, or replaced by a deployment.
Crash(p) ==
  /\ "crash" \in Faults
  /\ phase[p] # "down"
  /\ Die(p)

-----------------------------------------------------------------------------
(* Requests to POST trustAnchor/chain and trustAnchor/chain/file *)

Reach(r, s) == stage' = [stage EXCEPT ![r] = s]

\* The pipe has split the text of the chain.  If one of its own certificates
\* does not parse, the answer is a 409 before the cache is looked at.
Ask(r) ==
  /\ phase[PodOf[r]] = "up"
  /\ stage[r] \in {"idle"} \cup Answers
  /\ Reach(r, "get") \/ Reach(r, "failed")
  /\ trusted' = [trusted EXCEPT ![r] = {}]
  /\ UNCHANGED <<store, podVars>>

\* Mutants: the cache is never used, or a miss counts as an empty list.
GetUncached(r) ==
  /\ stage[r] = "get"
  /\ Reach(r, "read")
  /\ UNCHANGED <<store, podVars, trusted>>
GetMissIsEmpty(r) ==
  /\ stage[r] = "get"
  /\ trusted' = [trusted EXCEPT ![r] = IF cache[PodOf[r]] = Unset THEN {} ELSE cache[PodOf[r]]]
  /\ Reach(r, "verify")
  /\ UNCHANGED <<store, podVars>>

\* retrieveCertificatesFromCache: even an empty list is a hit.
Get(r) ==
  /\ stage[r] = "get"
  /\ \/ /\ cache[PodOf[r]] # Unset
        /\ trusted' = [trusted EXCEPT ![r] = cache[PodOf[r]]]
        /\ Reach(r, "verify")
     \/ /\ cache[PodOf[r]] = Unset
        /\ Reach(r, "read")
        /\ UNCHANGED trusted
  /\ UNCHANGED <<store, podVars>>

\* Mutant: the field trustAnchorCertificateCache is read, which nothing fills.
ReadField(r) ==
  /\ stage[r] = "read"
  /\ trusted' = [trusted EXCEPT ![r] = {}]
  /\ Reach(r, "set")
  /\ UNCHANGED <<store, podVars>>

\* A miss: cacheAllTrustAnchorCertificates reads the database ...
Read(r) ==
  /\ stage[r] = "read"
  /\ trusted' = [trusted EXCEPT ![r] = store]
  /\ Reach(r, "set")
  /\ UNCHANGED <<store, podVars>>

\* ... parses all of it and sets the cache, whether or not another request has
\* set it in the meantime.
Fill(r) ==
  /\ stage[r] = "set"
  /\ trusted[r] \subseteq Parsable
  /\ cache' = [cache EXCEPT ![PodOf[r]] = trusted[r]]
  /\ Reach(r, "verify")
  /\ UNCHANGED <<store, phase, booted, known, trusted>>

\* Mutant: only a failed read becomes a 409.
FillFailsAtRead(r) ==
  /\ stage[r] = "read" /\ "reads" \in Faults
  /\ Reach(r, "failed")
  /\ UNCHANGED <<store, podVars, trusted>>

\* The read or the parse throws, which becomes a 409.
FillFails(r) ==
  /\ \/ stage[r] = "read" /\ "reads" \in Faults
     \/ stage[r] = "set" /\ ~(trusted[r] \subseteq Parsable)
  /\ Reach(r, "failed")
  /\ UNCHANGED <<store, podVars, trusted>>

\* Mutant: without trust anchors any chain will do.
VerifyOpen(r) ==
  /\ stage[r] = "verify"
  /\ Reach(r, IF trusted[r] = {} \/ RootsOf[r] \cap trusted[r] # {} THEN "accepted" ELSE "denied")
  /\ UNCHANGED <<store, podVars, trusted>>

\* The validation engine runs on what this request has read, first in one
\* order of the chain and then in the other.
Verify(r) ==
  /\ stage[r] = "verify"
  /\ Reach(r, IF RootsOf[r] \cap trusted[r] # {} THEN "accepted" ELSE "denied")
  /\ UNCHANGED <<store, podVars, trusted>>

Serve(r) == Get(r) \/ Read(r) \/ Fill(r) \/ FillFails(r) \/ Verify(r)

-----------------------------------------------------------------------------
Boot(p) == Launch(p) \/ Bootstrap(p) \/ BootRead(p) \/ BootFill(p) \/ BootFails(p)

Next ==
  \/ \E p \in Pods : Boot(p) \/ Refresh(p) \/ Crash(p)
  \/ \E r \in Requests : Ask(r) \/ Serve(r)

Spec == Init /\ [][Next]_vars

\* A pod that is down is launched again and its hooks settle; so does every
\* request.
FairSpec ==
  /\ Spec
  /\ \A p \in Pods : WF_vars(Boot(p))
  /\ \A r \in Requests : WF_vars(Serve(r))

-----------------------------------------------------------------------------
(* Properties *)

\* What a pod has cached is stored, and holds at least what was stored when its
\* own launch was done refreshing, however fills and launches interleave.
CacheSound ==
  \A p \in Pods : cache[p] # Unset => known[p] \subseteq cache[p] /\ cache[p] \subseteq store

\* No chain is accepted but against a stored trust anchor.
AnswersSound ==
  \A r \in Requests : stage[r] = "accepted" => RootsOf[r] \cap store # {}

\* The engine turns no chain down that verifies against an anchor which was stored
\* when the pod came up, whatever fills race, fail or are repeated: a request
\* gets all of those anchors, or the error that it could not be validated.
NoFalseDenial ==
  \A r \in Requests :
    stage[r] = "denied" => RootsOf[r] \cap known[PodOf[r]] = {}

\* With the eager cache no request ever goes to the database: the entry that the
\* bootstrap made has no ttl and stays for the life of the process.
EagerNeverMisses ==
  EagerCache => /\ \A p \in Pods : phase[p] = "up" => cache[p] # Unset
                /\ \A r \in Requests : stage[r] \notin {"read", "set"}

\* With the eager cache two requests with the same anchors get the same verdict
\* from a pod as long as it lives, whatever other pods store in between.
AnswersAgree ==
  EagerCache => \A r, q \in Requests :
    /\ PodOf[r] = PodOf[q] /\ RootsOf[r] = RootsOf[q]
    /\ {stage[r], stage[q]} \subseteq Verdicts
    => stage[r] = stage[q]

\* A request to a pod is answered, unless the pod dies.
Answered ==
  \A r \in Requests : stage[r] = "get" ~> stage[r] \in Answers \cup {"idle"}

\* A request "will set the respective cache key, if not set already"
\* (trust-anchor.service.ts:170), so that a pod that runs never trusts less than
\* before.  Not so when requests miss the cache at the same time: the one that read
\* the database first may be the last to set the key.
CacheNeverShrinks ==
  [][\A p \in Pods : Unset \notin {cache[p], cache'[p]} => cache[p] \subseteq cache'[p]]_vars

\* The "certificates from DB are cached at onApplicationBootstrap event"
\* (trust-anchor.service.ts:34).  Not so once a certificate is stored that does
\* not parse: every bootstrap throws from then on.
BootstrapCaches ==
  \A p \in Pods : phase[p] = "boot" ~> cache[p] # Unset
=============================================================================
