--------------------------- MODULE RegistryProofs ---------------------------
(***************************************************************************)
(* Proofs about the registry in one piece: what is proved of its two       *)
(* components, ListRefresh and CertificateCache, carries over, and what    *)
(* holds only of both together is proved from it.                          *)
(***************************************************************************)
EXTENDS Registry, TLAPS

RP == INSTANCE ListRefreshProofs WITH
        InProduction <- NodeEnv = "production",
        Faults       <- Faults \cap {"crash", "http", "lists", "anchors"}

CP == INSTANCE CertificateCacheProofs WITH
        store      <- CertsOf(anchors),
        EagerCache <- NodeEnv \notin {"development", "test"},
        Faults     <- Faults \cap {"crash", "reads"}

LEMMA RefreshAssumptions ==
  RP!ConstantsAssumption /\ RP!MozillaAssumption /\ RP!NoListAssumption
  BY ComponentAssumptions DEF R!ToSet, R!FaultKinds, R!ListIds, RP!ToSet, RP!FaultKinds, RP!ListIds

LEMMA CacheAssumptions == CP!ConstantsAssumption
  BY ComponentAssumptions DEF C!FaultKinds, CP!FaultKinds

\* The steps of a pod in the module that is instantiated with its proofs.
LEMMA SameLaunch == ASSUME NEW p \in Pods PROVE R!Launch(p) = RP!Launch(p)
  BY DEF R!Launch, R!SetStack, R!Goto, R!stored, RP!Launch, RP!SetStack, RP!Goto, RP!stored

LEMMA SameStop == ASSUME NEW p \in Pods PROVE R!Stop(p) = RP!Stop(p)
  BY DEF R!Stop, R!SetStack, R!Goto, R!stored, RP!Stop, RP!SetStack, RP!Goto, RP!stored

LEMMA SameClock == R!ClockMoves = RP!ClockMoves
  BY DEF R!ClockMoves, R!Dates, R!Idle, R!stored, RP!ClockMoves, RP!Dates, RP!Idle, RP!stored

LEMMA SameRefresh == ASSUME NEW p \in Pods PROVE R!Refresh(p) = RP!Refresh(p)
  <1>1. R!TakeItem(p) = RP!TakeItem(p)
    BY DEF R!TakeItem, R!Top, R!Goto, R!stored, RP!TakeItem, RP!Top, RP!Goto, RP!stored
  <1>2. R!TakeItemFails(p) = RP!TakeItemFails(p)
    BY DEF R!TakeItemFails, R!AtRoot, R!Top, R!Failure, R!SetStack, R!EndItem, R!SetTop,
      R!stored, RP!TakeItemFails, RP!AtRoot, RP!Top, RP!Failure, RP!SetStack,
      RP!EndItem, RP!SetTop, RP!stored
  <1>3. R!Find(p) = RP!Find(p)
    BY DEF R!Find, R!Target, R!Top, R!Visit, R!Wanted, R!AtRoot, R!Due, R!SetStack,
      R!Goto, R!EndItem, R!SetTop, R!stored, RP!Find, RP!Target, RP!Top, RP!Visit,
      RP!Wanted, RP!AtRoot, RP!Due, RP!SetStack, RP!Goto, RP!EndItem, RP!SetTop,
      RP!stored
  <1>4. R!Insert(p) = RP!Insert(p)
    BY DEF R!Insert, R!Target, R!Top, R!Visit, R!Wanted, R!AtRoot, R!Due, R!SetStack,
      R!Goto, R!EndItem, R!SetTop, RP!Insert, RP!Target, RP!Top, RP!Visit, RP!Wanted,
      RP!AtRoot, RP!Due, RP!SetStack, RP!Goto, RP!EndItem, RP!SetTop
  <1>5. R!FindFails(p) = RP!FindFails(p)
    BY DEF R!FindFails, R!AtRoot, R!Failure, R!Goto, R!SetStack, R!EndItem, R!SetTop,
      R!Top, R!stored, RP!FindFails, RP!AtRoot, RP!Failure, RP!Goto, RP!SetStack,
      RP!EndItem, RP!SetTop, RP!Top, RP!stored
  <1>6. R!Fetch(p) = RP!Fetch(p)
    BY DEF R!Fetch, R!Top, R!SetStack, R!SetTop, R!AnchorsOf, R!Goto, R!stored,
      RP!Fetch, RP!Top, RP!SetStack, RP!SetTop, RP!AnchorsOf, RP!Goto, RP!stored
  <1>7. R!FetchFails(p) = RP!FetchFails(p)
    BY DEF R!FetchFails, R!Failure, R!IsMozilla, R!Top, R!Goto, R!stored, RP!FetchFails,
      RP!Failure, RP!IsMozilla, RP!Top, RP!Goto, RP!stored
  <1>8. R!Stamp(p) = RP!Stamp(p)
    BY DEF R!Stamp, R!Top, R!Goto, RP!Stamp, RP!Top, RP!Goto
  <1>9. R!StampFails(p) = RP!StampFails(p)
    BY DEF R!StampFails, R!Failure, R!IsMozilla, R!Top, R!SetTop, R!SetStack, R!Goto,
      R!stored, RP!StampFails, RP!Failure, RP!IsMozilla, RP!Top, RP!SetTop, RP!SetStack,
      RP!Goto, RP!stored
  <1>10. R!Return(p) = RP!Return(p)
    BY DEF R!Return, R!AtRoot, R!Top, R!SetStack, R!EndItem, R!SetTop, R!Front,
      R!stored, RP!Return, RP!AtRoot, RP!Top, RP!SetStack, RP!EndItem, RP!SetTop,
      RP!Front, RP!stored
  <1>11. R!BeginSave(p) = RP!BeginSave(p)
    BY DEF R!BeginSave, R!AtRoot, R!Top, R!Goto, R!stored, RP!BeginSave, RP!AtRoot,
      RP!Top, RP!Goto, RP!stored
  <1>12. R!SaveAnchor(p) = RP!SaveAnchor(p)
    BY DEF R!SaveAnchor, R!Pending, R!Settle, R!SetStack, R!SetTop, R!Top,
      RP!SaveAnchor, RP!Pending, RP!Settle, RP!SetStack, RP!SetTop, RP!Top
  <1>13. R!SaveAnchorFails(p) = RP!SaveAnchorFails(p)
    BY DEF R!SaveAnchorFails, R!Failure, R!Pending, R!Settle, R!SetStack, R!SetTop,
      R!Top, R!stored, RP!SaveAnchorFails, RP!Failure, RP!Pending, RP!Settle,
      RP!SetStack, RP!SetTop, RP!Top, RP!stored
  <1>14. R!Ready(p) = RP!Ready(p)
    BY DEF R!Ready, R!Pending, R!Goto, R!SetStack, R!stored, RP!Ready, RP!Pending,
      RP!Goto, RP!SetStack, RP!stored
  <1> QED
    BY <1>1, <1>2, <1>3, <1>4, <1>5, <1>6, <1>7, <1>8, <1>9, <1>10, <1>11, <1>12, <1>13, <1>14 DEF R!Refresh, RP!Refresh

LEMMA SameInit == R!Init = RP!Init
  BY DEF R!Init, R!ListIds, RP!Init, RP!ListIds

LEMMA SameFound == ASSUME NEW s PROVE R!FoundIn(s) = RP!FoundIn(s)
  BY DEF R!FoundIn, RP!FoundIn
LEMMA SameRefreshSpec == R!Init = RP!Init /\ R!Next = RP!Next /\ R!vars = RP!vars
  <1>1. R!Next = RP!Next
    BY SameLaunch, SameRefresh, SameStop, SameClock DEF R!Next, RP!Next
  <1> QED
    BY <1>1, SameInit DEF R!vars, R!stored, RP!vars, RP!stored

LEMMA SameCacheSpec == C!Init = CP!Init /\ C!Next = CP!Next /\ C!vars = CP!vars
  <1>1. ASSUME NEW p \in Pods
        PROVE  C!Boot(p) = CP!Boot(p) /\ C!Refresh(p) = CP!Refresh(p) /\ C!Crash(p) = CP!Crash(p)
    BY DEF C!Boot, C!Launch, C!Bootstrap, C!BootRead, C!BootFill, C!BootFails, C!Die, C!Enter,
      C!Refresh, C!Crash, C!podVars, C!reqVars, CP!Boot, CP!Launch, CP!Bootstrap, CP!BootRead,
      CP!BootFill, CP!BootFails, CP!Die, CP!Enter, CP!Refresh, CP!Crash, CP!podVars, CP!reqVars
  <1>2. ASSUME NEW r \in Requests PROVE C!Ask(r) = CP!Ask(r) /\ C!Serve(r) = CP!Serve(r)
    BY DEF C!Ask, C!Serve, C!Get, C!Read, C!Fill, C!FillFails, C!Verify, C!Reach, C!podVars,
      C!Answers, C!Verdicts, CP!Ask, CP!Serve, CP!Get, CP!Read, CP!Fill, CP!FillFails, CP!Verify,
      CP!Reach, CP!podVars, CP!Answers, CP!Verdicts
  <1>3. C!Next = CP!Next
    BY <1>1, <1>2 DEF C!Next, CP!Next
  <1> QED
    BY <1>3 DEF C!Init, C!vars, C!podVars, C!reqVars, CP!Init, CP!vars, CP!podVars, CP!reqVars

-----------------------------------------------------------------------------
(* The components in the registry *)

\* Every step of the registry is a step of the refresh or leaves its variables alone.
LEMMA RefreshStep == [Next]_vars => [RP!Next]_(RP!vars)
  <1> SUFFICES ASSUME [Next]_vars PROVE R!Next \/ UNCHANGED RP!vars
    BY SameRefreshSpec
  <1>1. ASSUME NEW p \in Pods, Launch(p) PROVE R!Next
    BY <1>1 DEF Launch, R!Next
  <1>2. ASSUME NEW p \in Pods, Refresh(p) PROVE R!Next
    BY <1>2 DEF Refresh, R!Next
  <1>3. ASSUME NEW p \in Pods, Exit(p) PROVE R!Next
    BY <1>3 DEF Exit, R!Next
  <1>4. CASE ClockMoves
    BY <1>4 DEF ClockMoves, R!Next
  <1>5. ASSUME UNCHANGED refreshVars PROVE UNCHANGED RP!vars
    BY <1>5 DEF refreshVars, RP!vars, RP!stored
  <1> QED
    BY <1>1, <1>2, <1>3, <1>4, <1>5 DEF Next, vars, Bootstrap, Cache, Serve

LEMMA ShapeInvariant == Spec => []RP!ShapeInv
  <1>1. Init => RP!ShapeInv
    BY RefreshAssumptions, RP!ShapeInit, SameInit DEF Init
  <1>2. RP!ShapeInv /\ [Next]_vars => RP!ShapeInv'
    BY RefreshAssumptions, RP!ShapeNext, RefreshStep
  <1> QED
    BY <1>1, <1>2, PTL DEF Spec

\* A step of the refresh of p: where it may be, and what it does to the database.
LEMMA RefreshOfPod ==
  ASSUME NEW p \in Pods, RP!ShapeInv, R!Refresh(p)
  PROVE  /\ pc[p] \notin {"down", "ready"} /\ pc'[p] # "down"
         /\ \A q \in Pods \ {p} : pc'[q] = pc[q] /\ clean'[q] = clean[q] /\ stack'[q] = stack[q]
         /\ clean'[p] => clean[p]
         /\ \/ CertsOf(anchors') = CertsOf(anchors)
            \/ \E c \in Certs : CertsOf(anchors') = CertsOf(anchors) \cup {c}
         /\ clean'[p] => CertsOf(anchors) \cup CertsOf(RP!Held(p))
                          \subseteq CertsOf(anchors') \cup CertsOf(RP!Held(p)')
  <1>1. RP!Refresh(p)
    BY SameRefresh
  <1>2. RP!HeldStep(p) /\ \A q \in Pods \ {p} : stack'[q] = stack[q]
    BY <1>1, RefreshAssumptions, RP!HeldByStep
  <1>3. pc \in [Pods -> RP!Idle \cup {"next", "find", "insert", "fetch", "stamp", "save"}]
        /\ clean \in [Pods -> BOOLEAN]
    BY DEF RP!ShapeInv, RP!TypeOK
  <1>4. /\ pc[p] \notin {"down", "ready"} /\ pc'[p] # "down"
        /\ \A q \in Pods \ {p} : pc'[q] = pc[q] /\ clean'[q] = clean[q]
        /\ clean'[p] => clean[p]
    BY <1>1, <1>3 DEF RP!Refresh, RP!TakeItem, RP!TakeItemFails, RP!Find, RP!Insert, RP!FindFails,
      RP!Fetch, RP!FetchFails, RP!Stamp, RP!StampFails, RP!Return, RP!BeginSave, RP!SaveAnchor,
      RP!SaveAnchorFails, RP!Ready, RP!Visit, RP!Goto, RP!Failure, RP!Idle
  <1>5. RP!ShapeInv'
    <2>1. RP!Next
      BY <1>1 DEF RP!Next
    <2> QED
      BY <2>1, RefreshAssumptions, RP!ShapeNext
  <1>6. anchors' \subseteq RP!Anchors
    BY <1>5 DEF RP!ShapeInv, RP!TypeOK
  <1>7. CASE UNCHANGED anchors /\ (clean'[p] => RP!Held(p) \subseteq RP!Held(p)')
    BY <1>2, <1>4, <1>7 DEF CertsOf
  <1>8. CASE \E a \in RP!Held(p) : anchors' = anchors \cup {a} /\ RP!Held(p)' = RP!Held(p) \ {a}
    <2>1. PICK a \in RP!Held(p) : anchors' = anchors \cup {a} /\ RP!Held(p)' = RP!Held(p) \ {a}
      BY <1>8
    <2>2. a.cert \in Certs
      BY <1>6, <2>1 DEF RP!Anchors
    <2>3. CertsOf(anchors') = CertsOf(anchors) \cup {a.cert}
      BY <2>1 DEF CertsOf
    <2>4. CertsOf(RP!Held(p)) \subseteq CertsOf(anchors') \cup CertsOf(RP!Held(p)')
      BY <2>1 DEF CertsOf
    <2> QED
      BY <1>2, <1>4, <2>2, <2>3, <2>4
  <1> QED
    BY <1>2, <1>7, <1>8 DEF RP!HeldStep

\* The two components agree on where a pod is in its life.
Aligned(p) ==
  /\ phase[p] = "down" <=> pc[p] = "down"
  /\ phase[p] \in {"boot", "fill", "up"} => pc[p] = "ready"

\* In a launch without failure nothing is missing that was downloaded.
NothingMissing(p) ==
  clean[p] =>
    /\ phase[p] = "refresh" => downloaded[p] \subseteq CertsOf(anchors) \cup CertsOf(RP!Held(p))
    /\ phase[p] \in {"boot", "fill", "up"} => downloaded[p] \subseteq known[p]

Inv ==
  /\ RP!ShapeInv
  /\ CP!CacheInv
  /\ downloaded \in [Pods -> SUBSET Certs]
  /\ \A p \in Pods : Aligned(p) /\ NothingMissing(p)

LEMMA InvInit == Init => Inv
  <1> SUFFICES ASSUME Init PROVE Inv
    OBVIOUS
  <1>1. RP!Init /\ CP!Init
    BY SameInit, SameCacheSpec DEF Init
  <1>2. RP!ShapeInv /\ CP!CacheInv
    BY <1>1, RefreshAssumptions, CacheAssumptions, RP!ShapeInit, CP!CacheInit
  <1>3. \A p \in Pods : pc[p] = "down" /\ phase[p] = "down"
    BY <1>1 DEF RP!Init, CP!Init
  <1> QED
    BY <1>2, <1>3 DEF Init, Inv, Aligned, NothingMissing

\* Every step of the registry is a step of the cache or leaves its variables alone:
\* the refresh adds certificates to the database one by one, before the bootstrap.
LEMMA CacheStep == Inv /\ [Next]_vars => [CP!Next]_(CP!vars)
  <1> SUFFICES ASSUME Inv, [Next]_vars PROVE CP!Next \/ UNCHANGED CP!vars
    OBVIOUS
  <1>1. ASSUME NEW p \in Pods, Launch(p) \/ Bootstrap(p) \/ Cache(p) \/ Exit(p) PROVE C!Next
    BY <1>1 DEF Launch, Bootstrap, Cache, Exit, C!Next, C!Boot
  <1>2. ASSUME NEW r \in Requests, Serve(r) PROVE C!Next
    BY <1>2 DEF Serve, C!Next
  <1>3. ASSUME NEW p \in Pods, Refresh(p) PROVE CP!Next \/ UNCHANGED CP!vars
    <2>1. /\ pc[p] \notin {"down", "ready"}
          /\ \/ CertsOf(anchors') = CertsOf(anchors)
             \/ \E c \in Certs : CertsOf(anchors') = CertsOf(anchors) \cup {c}
      BY <1>3, RefreshOfPod DEF Inv, Refresh
    <2>2. phase[p] = "refresh"
      BY <2>1 DEF Inv, Aligned, CP!CacheInv, CP!TypeOK
    <2>3. UNCHANGED cacheVars
      BY <1>3 DEF Refresh
    <2>4. CASE CertsOf(anchors') = CertsOf(anchors)
      BY <2>3, <2>4 DEF cacheVars, CP!vars, CP!podVars, CP!reqVars
    <2>5. CASE \E c \in Certs \ CertsOf(anchors) : CertsOf(anchors') = CertsOf(anchors) \cup {c}
      <3>1. CP!Refresh(p)
        BY <2>2, <2>3, <2>5 DEF CP!Refresh, cacheVars, CP!podVars, CP!reqVars
      <3> QED
        BY <3>1 DEF CP!Next
    <2> QED
      BY <2>1, <2>4, <2>5
  <1>4. CASE ClockMoves \/ UNCHANGED vars
    <2>1. UNCHANGED <<anchors, cacheVars>>
      BY <1>4 DEF ClockMoves, R!ClockMoves, R!stored, vars, refreshVars
    <2> QED
      BY <2>1 DEF cacheVars, CP!vars, CP!podVars, CP!reqVars
  <1> QED
    BY <1>1, <1>2, <1>3, <1>4, SameCacheSpec DEF Next

\* What is kept of a pod by a step that leaves it alone.
LEMMA OtherPod ==
  ASSUME NEW p \in Pods, Aligned(p), NothingMissing(p),
         pc'[p] = pc[p], clean'[p] = clean[p], phase'[p] = phase[p], known'[p] = known[p],
         downloaded'[p] = downloaded[p], stack'[p] = stack[p],
         CertsOf(anchors) \subseteq CertsOf(anchors')
  PROVE  Aligned(p)' /\ NothingMissing(p)'
  <1>1. RP!Held(p)' = RP!Held(p)
    BY DEF RP!Held
  <1> QED
    BY <1>1 DEF Aligned, NothingMissing

LEMMA InvNext == Inv /\ [Next]_vars => Inv'
  <1> SUFFICES ASSUME Inv, [Next]_vars PROVE Inv'
    OBVIOUS
  <1>1. RP!ShapeInv' /\ CP!CacheInv'
    BY RefreshStep, CacheStep, RefreshAssumptions, CacheAssumptions, RP!ShapeNext, CP!CacheNext
       DEF Inv
  <1>2. /\ pc \in [Pods -> RP!Idle \cup {"next", "find", "insert", "fetch", "stamp", "save"}]
        /\ stack \in [Pods -> Seq(RP!Frames)] /\ clean \in [Pods -> BOOLEAN]
        /\ phase \in [Pods -> {"down", "refresh", "boot", "fill", "up"}]
        /\ known \in [Pods -> SUBSET Certs]
        /\ downloaded \in [Pods -> SUBSET Certs]
        /\ \A q \in Pods : Aligned(q) /\ NothingMissing(q)
    BY DEF Inv, RP!ShapeInv, RP!TypeOK, CP!CacheInv, CP!TypeOK
  <1>a. SUFFICES /\ downloaded' \in [Pods -> SUBSET Certs]
                 /\ \A q \in Pods : Aligned(q)' /\ NothingMissing(q)'
    BY <1>1 DEF Inv
  <1>3. ASSUME NEW p \in Pods, Launch(p) PROVE <1>a!1
    <2>1. /\ pc' = [pc EXCEPT ![p] = "next"] /\ clean' = [clean EXCEPT ![p] = TRUE]
          /\ \A q \in Pods \ {p} : stack'[q] = stack[q]
          /\ UNCHANGED anchors
          /\ phase' = [phase EXCEPT ![p] = "refresh"] /\ UNCHANGED known
          /\ downloaded' = [downloaded EXCEPT ![p] = {}]
      BY <1>2, <1>3 DEF Launch, R!Launch, R!SetStack, R!Goto, R!stored, C!Launch, C!Enter
    <2>2. Aligned(p)' /\ NothingMissing(p)'
      BY <1>2, <2>1 DEF Aligned, NothingMissing
    <2>3. ASSUME NEW q \in Pods \ {p} PROVE Aligned(q)' /\ NothingMissing(q)'
      BY <1>2, <2>1, OtherPod
    <2> QED
      BY <1>2, <2>1, <2>2, <2>3
  <1>4. ASSUME NEW p \in Pods, Refresh(p) PROVE <1>a!1
    <2>1. /\ pc[p] \notin {"down", "ready"} /\ pc'[p] # "down"
          /\ \A q \in Pods \ {p} : pc'[q] = pc[q] /\ clean'[q] = clean[q] /\ stack'[q] = stack[q]
          /\ clean'[p] => clean[p]
          /\ CertsOf(anchors) \subseteq CertsOf(anchors')
          /\ clean'[p] => CertsOf(anchors) \cup CertsOf(RP!Held(p))
                           \subseteq CertsOf(anchors') \cup CertsOf(RP!Held(p)')
      BY <1>4, RefreshOfPod DEF Inv, Refresh
    <2>2. /\ phase' = phase /\ known' = known
          /\ downloaded' = [downloaded EXCEPT ![p] = @ \cup CertsOf(RP!Held(p)')]
      BY <1>4, SameFound DEF Refresh, cacheVars, RP!Held
    <2>3. phase[p] = "refresh"
      BY <1>2, <2>1 DEF Aligned
    <2>4. CertsOf(RP!Held(p)') \subseteq Certs
      <3>1. stack'[p] \in Seq(RP!Frames)
        BY <1>1 DEF RP!ShapeInv, RP!TypeOK
      <3>2. \A i \in 1 .. Len(stack'[p]) : stack'[p][i] \in RP!Frames
        BY <3>1, RefreshAssumptions, RP!ElementOfSeq
      <3>3. RP!FoundIn(stack'[p]) \subseteq RP!Anchors
        BY <3>2 DEF RP!FoundIn, RP!Frames
      <3> QED
        BY <3>3 DEF RP!Held, RP!Anchors, CertsOf
    <2>5. Aligned(p)' /\ NothingMissing(p)'
      BY <1>2, <2>1, <2>2, <2>3 DEF Aligned, NothingMissing
    <2>6. ASSUME NEW q \in Pods \ {p} PROVE Aligned(q)' /\ NothingMissing(q)'
      BY <1>2, <2>1, <2>2, OtherPod
    <2> QED
      BY <1>2, <2>2, <2>4, <2>5, <2>6
  <1>5. ASSUME NEW p \in Pods, Bootstrap(p) PROVE <1>a!1
    <2>1. /\ UNCHANGED <<pc, clean, stack, anchors, downloaded>>
          /\ phase[p] = "refresh" /\ pc[p] = "ready"
          /\ \E ph \in {"boot", "up"} : phase' = [phase EXCEPT ![p] = ph]
          /\ known' = [known EXCEPT ![p] = CertsOf(anchors)]
      BY <1>5 DEF Bootstrap, refreshVars, C!Bootstrap, C!Enter
    <2>2. RP!Held(p) = {}
      <3>1. stack[p] = << >>
        BY <2>1 DEF Inv, RP!ShapeInv, RP!Shape, RP!Idle
      <3> QED
        BY <3>1, RefreshAssumptions, RP!FoundEmpty DEF RP!Held
    <2>3. Aligned(p)' /\ NothingMissing(p)'
      BY <1>2, <2>1, <2>2 DEF Aligned, NothingMissing, CertsOf
    <2>4. ASSUME NEW q \in Pods \ {p} PROVE Aligned(q)' /\ NothingMissing(q)'
      BY <1>2, <2>1, OtherPod
    <2> QED
      BY <1>2, <2>1, <2>3, <2>4
  <1>6. ASSUME NEW p \in Pods, Cache(p) PROVE <1>a!1
    <2>1. /\ UNCHANGED <<pc, clean, stack, anchors, downloaded, known>>
          /\ phase[p] \in {"boot", "fill"}
          /\ \E ph \in {"fill", "up"} : phase' = [phase EXCEPT ![p] = ph]
      BY <1>6 DEF Cache, refreshVars, C!BootRead, C!BootFill, C!Enter
    <2>2. Aligned(p)' /\ NothingMissing(p)'
      BY <1>2, <2>1 DEF Aligned, NothingMissing
    <2>3. ASSUME NEW q \in Pods \ {p} PROVE Aligned(q)' /\ NothingMissing(q)'
      BY <1>2, <2>1, OtherPod
    <2> QED
      BY <1>2, <2>1, <2>2, <2>3
  <1>7. ASSUME NEW p \in Pods, Exit(p) PROVE <1>a!1
    <2>1. /\ pc' = [pc EXCEPT ![p] = "down"] /\ clean' = [clean EXCEPT ![p] = FALSE]
          /\ \A q \in Pods \ {p} : stack'[q] = stack[q]
          /\ UNCHANGED <<anchors, downloaded, known>>
          /\ phase' = [phase EXCEPT ![p] = "down"]
      BY <1>2, <1>7 DEF Exit, R!Stop, R!SetStack, R!Goto, R!stored, C!BootFails, C!Crash, C!Die,
        C!Enter
    <2>2. Aligned(p)' /\ NothingMissing(p)'
      BY <1>2, <2>1 DEF Aligned, NothingMissing
    <2>3. ASSUME NEW q \in Pods \ {p} PROVE Aligned(q)' /\ NothingMissing(q)'
      BY <1>2, <2>1, OtherPod
    <2> QED
      BY <1>2, <2>1, <2>2, <2>3
  <1>8. ASSUME UNCHANGED <<pc, clean, stack, anchors, downloaded, known, phase>> PROVE <1>a!1
    BY <1>2, <1>8, OtherPod
  <1>9. ASSUME NEW r \in Requests, Serve(r) PROVE <1>a!1
    BY <1>8, <1>9 DEF Serve, refreshVars, C!Ask, C!Serve, C!Get, C!Read, C!Fill, C!FillFails,
      C!Verify, C!podVars
  <1>10. CASE ClockMoves \/ UNCHANGED vars
    BY <1>8, <1>10 DEF ClockMoves, R!ClockMoves, R!stored, vars, refreshVars, cacheVars
  <1> QED
    BY <1>3, <1>4, <1>5, <1>6, <1>7, <1>9, <1>10 DEF Next

LEMMA Invariant == Spec => []Inv
  BY InvInit, InvNext, PTL DEF Spec

-----------------------------------------------------------------------------
(* Theorems *)

\* All variables have their types; those of the refresh and of the cache are what
\* these modules say, and a launch downloads certificates.
THEOREM TypeCorrect == Spec => []TypeOK
  <1>1. Inv => TypeOK
    <2> SUFFICES ASSUME Inv PROVE TypeOK
      OBVIOUS
    <2>1. R!TypeOK
      BY DEF Inv, RP!ShapeInv, RP!TypeOK, RP!Dates, RP!ListIds, RP!Anchors, RP!Frames, RP!Idle,
        R!TypeOK, R!Dates, R!ListIds, R!Anchors, R!Frames, R!Idle
    <2>2. C!TypeOK
      BY DEF Inv, CP!CacheInv, CP!TypeOK, CP!Answers, CP!Verdicts,
        C!TypeOK, C!Answers, C!Verdicts
    <2> QED
      BY <2>1, <2>2 DEF Inv, TypeOK
  <1> QED
    BY <1>1, Invariant, PTL

\* The cache behaves in the registry as CertificateCache says: what is proved there
\* holds of the whole registry.
THEOREM CacheImplemented == Spec => CacheComponent
  <1>1. Init => C!Init
    BY DEF Init
  <1>2. Inv /\ [Next]_vars => [C!Next]_(C!vars)
    BY CacheStep, SameCacheSpec DEF C!vars, C!podVars, C!reqVars, CP!vars, CP!podVars, CP!reqVars
  <1> QED
    BY <1>1, <1>2, Invariant, PTL DEF Spec, CacheComponent, C!Spec

\* A pod whose launch was clean denies no chain that verifies against a certificate
\* it downloaded, for any number of pods, lists, pointers and requests.
THEOREM DownloadsTrusted == Spec => []DownloadedIsTrusted
  <1>1. Inv => DownloadedIsTrusted
    <2> SUFFICES ASSUME Inv, NEW r \in Requests, stage[r] = "denied", clean[PodOf[r]]
                 PROVE  RootsOf[r] \cap downloaded[PodOf[r]] = {}
      BY DEF DownloadedIsTrusted
    <2>1. PodOf[r] \in Pods
      BY CacheAssumptions, CP!ConstantsAssumption
    <2>2. phase[PodOf[r]] = "up" /\ RootsOf[r] \cap known[PodOf[r]] = {}
      BY DEF Inv, CP!CacheInv, CP!ReqInv
    <2> QED
      BY <2>1, <2>2 DEF Inv, NothingMissing
  <1> QED
    BY <1>1, Invariant, PTL

\* A chain that is accepted anywhere verifies against a certificate that a list the
\* registry knows of offers: neither the refresh, which keeps the certificates of
\* all lists on one stack, nor the cache, which keeps them without their lists,
\* brings in any other.
THEOREM AcceptedAreOffered == Spec => []AcceptedIsOffered
  <1>1. Spec => RP!Spec
    <2>1. Init => RP!Init
      BY SameInit DEF Init
    <2> QED
      BY <2>1, RefreshStep, PTL DEF Spec, RP!Spec
  <1>2. Spec => []RP!AttributedToSource
    BY <1>1, RefreshAssumptions, RP!AttributedCorrect, PTL
  <1>3. RP!AttributedToSource /\ Inv => AcceptedIsOffered
    <2> SUFFICES ASSUME RP!AttributedToSource, Inv, NEW r \in Requests, stage[r] = "accepted"
                 PROVE  \E d \in lists : RootsOf[r] \cap Offers[d.uri] # {}
      BY DEF AcceptedIsOffered
    <2>1. PICK a \in anchors : a.cert \in RootsOf[r]
      BY DEF Inv, CP!CacheInv, CP!ReqInv, CertsOf
    <2>2. a.list \in lists /\ a.cert \in Offers[a.list.uri]
      BY <2>1 DEF RP!AttributedToSource
    <2> QED
      BY <2>1, <2>2
  <1> QED
    BY <1>2, <1>3, Invariant, PTL
=============================================================================
