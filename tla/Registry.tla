------------------------------ MODULE Registry ------------------------------
(***************************************************************************)
(* The registry in one piece: pods that refresh the lists when they are    *)
(* launched (ListRefresh), fill their cache from the database afterwards   *)
(* and then answer requests (CertificateCache), all over one database.     *)
(*                                                                         *)
(* The two components share the trust anchor documents and the process     *)
(* they run in: Nest awaits onModuleInit of all providers before it calls  *)
(* onApplicationBootstrap, and listens after that; a process that ends     *)
(* takes both along.                                                       *)
(***************************************************************************)
EXTENDS Integers, SequencesExt

CONSTANTS
  Pods, Uris, ParentLists, MozillaLists, Certs, Offers, Pointers,
  FetchInterval, MaxClock, Never, NoList,     \* see ListRefresh
  Requests, PodOf, RootsOf, Parsable, Unset,  \* see CertificateCache
  NodeEnv,                                    \* the environment variable NODE_ENV
  Faults                                      \* of either component

VARIABLES
  clock, lists, lastFetchDate, anchors, pc, stack, lastSeen, clean,  \* ListRefresh
  phase, cache, booted, known, stage, trusted,                       \* CertificateCache
  downloaded  \* history: the certificates that the launch of a pod downloaded

R == INSTANCE ListRefresh WITH
       InProduction <- NodeEnv = "production",
       Faults       <- Faults \cap {"crash", "http", "lists", "anchors"}

CertsOf(as) == {a.cert : a \in as}

C == INSTANCE CertificateCache WITH
       store      <- CertsOf(anchors),
       EagerCache <- NodeEnv \notin {"development", "test"},
       Faults     <- Faults \cap {"crash", "reads"}

refreshVars == <<clock, lists, lastFetchDate, anchors, pc, stack, lastSeen, clean>>
cacheVars == <<phase, cache, booted, known, stage, trusted>>
vars == <<refreshVars, cacheVars, downloaded>>

ASSUME ComponentAssumptions ==
  /\ R!ConstantsAssumption /\ R!MozillaAssumption /\ R!NoListAssumption
  /\ C!ConstantsAssumption
ASSUME FaultsAssumption == Faults \subseteq R!FaultKinds \cup C!FaultKinds

TypeOK ==
  /\ R!TypeOK
  /\ C!TypeOK
  /\ downloaded \in [Pods -> SUBSET Certs]

Init ==
  /\ R!Init
  /\ C!Init
  /\ downloaded = [p \in Pods |-> {}]

-----------------------------------------------------------------------------
Launch(p) ==
  /\ R!Launch(p)
  /\ C!Launch(p)
  /\ downloaded' = [downloaded EXCEPT ![p] = {}]

Refresh(p) ==
  /\ R!Refresh(p)
  /\ UNCHANGED cacheVars
  /\ downloaded' = [downloaded EXCEPT ![p] = @ \cup CertsOf(R!FoundIn(stack'[p]))]

\* Mutant: the hook does not wait for onModuleInit.
BootstrapAtOnce(p) ==
  /\ pc[p] \in {"save", "ready"}
  /\ UNCHANGED <<refreshVars, downloaded>>
  /\ C!Bootstrap(p)

\* onApplicationBootstrap runs when onModuleInit has returned.
Bootstrap(p) ==
  /\ pc[p] = "ready"
  /\ UNCHANGED <<refreshVars, downloaded>>
  /\ C!Bootstrap(p)

Cache(p) ==
  /\ UNCHANGED <<refreshVars, downloaded>>
  /\ C!BootRead(p) \/ C!BootFill(p)

Serve(r) ==
  /\ UNCHANGED <<refreshVars, downloaded>>
  /\ C!Ask(r) \/ C!Serve(r)

\* The process ends: a hook is rejected, or it is killed.
Exit(p) ==
  /\ R!Stop(p)
  /\ C!BootFails(p) \/ C!Crash(p)
  /\ UNCHANGED downloaded

ClockMoves ==
  /\ R!ClockMoves
  /\ UNCHANGED <<cacheVars, downloaded>>

Next ==
  \/ \E p \in Pods : Launch(p) \/ Refresh(p) \/ Bootstrap(p) \/ Cache(p) \/ Exit(p)
  \/ \E r \in Requests : Serve(r)
  \/ ClockMoves

Spec == Init /\ [][Next]_vars

-----------------------------------------------------------------------------
(* Properties *)

\* The cache behaves in the registry as CertificateCache says, where the refresh of
\* a launch is no more than certificates that are added to the database: nothing is
\* added for a pod that has begun its bootstrap, and nothing is ever taken away.
CacheComponent == C!Spec

\* A launch without failure makes a pod that trusts what it downloaded: no chain
\* is denied by it that verifies against such a certificate.  On its way there a
\* certificate passes from the call stack into the database, from there into the
\* cache, at bootstrap or by the first request, and from there into the
\* validation, while other pods do the same.
DownloadedIsTrusted ==
  \A r \in Requests :
    LET p == PodOf[r]
    IN stage[r] = "denied" /\ clean[p] => RootsOf[r] \cap downloaded[p] = {}

\* A chain that any pod accepts verifies against a certificate that the publisher
\* of a list the registry knows of offered.
AcceptedIsOffered ==
  \A r \in Requests : stage[r] = "accepted" =>
    \E d \in lists : RootsOf[r] \cap Offers[d.uri] # {}
=============================================================================
