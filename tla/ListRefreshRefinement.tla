----------------------- MODULE ListRefreshRefinement -----------------------
(***************************************************************************)
(* The refresh implements AnchorCollection, for every number of pods,      *)
(* every pointer graph and every kind of failure: each step of a launch is *)
(* a step of the abstract specification or leaves its variables alone.     *)
(***************************************************************************)
EXTENDS ListRefreshProofs

\* The refinement mapping of the variable held.
HeldMap == [p \in Pods |-> Held(p)]

\* What one pod's step does to the mapped variables.
LEMMA HeldMapStep ==
  ASSUME NEW p \in Pods, \A q \in Pods \ {p} : stack'[q] = stack[q]
  PROVE  HeldMap' = [HeldMap EXCEPT ![p] = Held(p)']
  <1>1. \A q \in Pods \ {p} : Held(q)' = Held(q)
    BY DEF Held
  <1> QED
    BY <1>1 DEF HeldMap

LEMMA CollectionStutters ==
  ASSUME UNCHANGED <<lists, anchors>>, HeldMap' = HeldMap
  PROVE  UNCHANGED Collection!vars
  BY DEF Collection!vars, HeldMap, Held

\* Only the insert of an upsert changes the lists, by one document.
LEMMA ListsStep ==
  ASSUME NEW p \in Pods, ShapeInv, Launch(p) \/ Refresh(p) \/ Stop(p)
  PROVE  \/ UNCHANGED lists
         \/ Insert(p) /\ \E d \in ListIds \ lists : lists' = lists \cup {d}
  <1>1. CASE Insert(p)
    <2>1. Top(stack[p]).todo \in Seq(Uris) /\ Top(stack[p]).todo # << >>
      BY <1>1, ActivePod DEF Insert, Idle, ShapeInv, Shape
    <2>2. [uri |-> Target(p), by |-> p] \in ListIds
      BY <2>1, HeadTailProperties DEF Target, ListIds
    <2> QED
      BY <1>1, <2>2 DEF Insert
  <1>2. CASE ~Insert(p)
    BY <1>2 DEF Launch, Refresh, Stop, TakeItem, TakeItemFails, Find, FindFails, Fetch, FetchFails,
       Stamp, StampFails, Return, BeginSave, SaveAnchor, SaveAnchorFails, Ready, stored
  <1> QED
    BY <1>1, <1>2

\* The insert takes nothing away: the stack is as it was but for a frame that has
\* found nothing.
LEMMA InsertHolds ==
  ASSUME NEW p \in Pods, ShapeInv, Insert(p)
  PROVE  Held(p)' = Held(p) /\ \A q \in Pods \ {p} : stack'[q] = stack[q]
  <1> DEFINE d == [uri |-> Target(p), by |-> p]
  <1>1. /\ stack[p] \in Seq(Frames) /\ stack[p] # << >>
        /\ Top(stack[p]).todo \in Seq(Uris) /\ Top(stack[p]).todo # << >>
        /\ stack \in [Pods -> Seq(Frames)] /\ {} \in SUBSET Anchors
    BY ActivePod DEF Insert, Idle, ShapeInv, Shape, TypeOK
  <1>2. d \in ListIds
    BY <1>1, HeadTailProperties DEF Target, ListIds
  <1>3. Visit(p, d)
    BY DEF Insert
  <1> HIDE DEF d
  <1> DEFINE f == [list |-> d, found |-> {}, todo |-> << >>]
  <1>4. f \in Frames /\ f.found = {}
    BY <1>2, EmptySeq DEF Frames
  <1>5. \/ stack' = [stack EXCEPT ![p] = Append(stack[p], f)]
        \/ stack' = [stack EXCEPT ![p] = EndItem(stack[p], {})]
    BY <1>3 DEF Visit, SetStack
  <1> HIDE DEF f
  <1>6. /\ FoundIn(Append(stack[p], f)) = FoundIn(stack[p]) \cup f.found
        /\ FoundIn(EndItem(stack[p], {})) = FoundIn(stack[p]) \cup {}
    BY <1>1, <1>4, FoundPush, FoundEndItem
  <1> QED
    BY <1>1, <1>4, <1>5, <1>6 DEF Held

LEMMA PodStepSimulated ==
  ASSUME NEW p \in Pods, ShapeInv, Launch(p) \/ Refresh(p) \/ Stop(p)
  PROVE  Collection!Next \/ UNCHANGED Collection!vars
  <1>1. HeldStep(p) /\ \A q \in Pods \ {p} : stack'[q] = stack[q]
    BY HeldByStep
  <1>2. HeldMap' = [HeldMap EXCEPT ![p] = Held(p)']
    BY <1>1, HeldMapStep
  <1>3. HeldMap \in [Pods -> SUBSET UNION {Held(q) : q \in Pods}] /\ HeldMap[p] = Held(p)
    BY DEF HeldMap
  <1>4. CASE Insert(p)
    <2>1. Held(p)' = Held(p)
      BY <1>4, InsertHolds
    <2>2. HeldMap' = HeldMap
      BY <1>2, <1>3, <2>1
    <2>3. UNCHANGED anchors
      BY <1>4 DEF Insert
    <2>4. CASE UNCHANGED lists
      BY <2>2, <2>3, <2>4, CollectionStutters
    <2>5. CASE \E d \in ListIds \ lists : lists' = lists \cup {d}
      <3>1. Collection!AddList
        BY <2>2, <2>3, <2>5 DEF Collection!AddList, HeldMap, Held
      <3> QED
        BY <3>1 DEF Collection!Next
    <2> QED
      BY <2>4, <2>5, ListsStep
  <1>5. CASE Fetch(p)
    <2>1. PICK d \in lists : /\ d = Top(stack[p]).list /\ d \in ListIds
                             /\ lastSeen'[d] \subseteq Offers[d.uri]
                             /\ UNCHANGED lists
      BY <1>5, FetchServes
    <2>2. HeldMap' = [HeldMap EXCEPT ![p] = @ \cup AnchorsOf(d, lastSeen'[d])] /\ UNCHANGED anchors
      BY <1>1, <1>2, <1>3, <1>5, <2>1 DEF HeldStep
    <2>3. AnchorsOf(d, lastSeen'[d]) \in SUBSET [e \in ListIds |-> AnchorsOf(e, Offers[e.uri])][d]
      BY <2>1 DEF AnchorsOf
    <2>4. Collection!Download(p)
      BY <2>1, <2>2, <2>3 DEF Collection!Download, HeldMap, Held
    <2> QED
      BY <2>4 DEF Collection!Next
  <1>6. CASE ~Insert(p) /\ ~Fetch(p)
    <2>1. UNCHANGED lists
      BY <1>6, ListsStep
    <2>2. CASE \E a \in Held(p) : anchors' = anchors \cup {a} /\ Held(p)' = Held(p) \ {a}
      <3>1. PICK a \in Held(p) : anchors' = anchors \cup {a} /\ Held(p)' = Held(p) \ {a}
        BY <2>2
      <3>2. HeldMap' = [HeldMap EXCEPT ![p] = @ \ {a}]
        BY <1>2, <1>3, <3>1
      <3>3. Collection!Store(p)
        BY <1>3, <2>1, <3>1, <3>2 DEF Collection!Store, HeldMap, Held
      <3> QED
        BY <3>3 DEF Collection!Next
    <2>3. CASE Held(p)' \subseteq Held(p) /\ UNCHANGED anchors /\ ~LosslessFaults
      <3> DEFINE lost == Held(p) \ Held(p)'
      <3>1. Held(p)' = Held(p) \ lost /\ lost \in SUBSET HeldMap[p]
        BY <1>3, <2>3
      <3>2. HeldMap' = [HeldMap EXCEPT ![p] = @ \ lost]
        BY <1>2, <1>3, <3>1
      <3> HIDE DEF lost
      <3>3. Collection!Lose(p)
        BY <2>1, <2>3, <3>1, <3>2 DEF Collection!Lose, HeldMap, Held
      <3> QED
        BY <3>3 DEF Collection!Next
    <2>4. CASE Held(p)' = Held(p) /\ UNCHANGED anchors
      BY <1>2, <1>3, <2>1, <2>4, CollectionStutters
    <2> QED
      BY <1>1, <1>6, <2>2, <2>3, <2>4 DEF HeldStep
  <1> QED
    BY <1>4, <1>5, <1>6

\* The refresh collects and stores what is downloaded and nothing else, each
\* anchor under the list it was downloaded from, and loses of it only by a crash,
\* a failed write of an anchor, or a Mozilla parser that throws.
THEOREM CollectionImplemented == Spec => ImplementsCollection
  <1>1. Init => Collection!Init
    BY FoundEmpty DEF Init, Collection!Init
  <1>2. ShapeInv /\ [Next]_vars => [Collection!Next]_(Collection!vars)
    <2> SUFFICES ASSUME ShapeInv, [Next]_vars
                 PROVE  Collection!Next \/ UNCHANGED Collection!vars
      OBVIOUS
    <2>1. CASE ClockMoves \/ UNCHANGED vars
      <3>1. UNCHANGED <<lists, anchors, stack>>
        BY <2>1, IdleKeeps
      <3>2. HeldMap' = HeldMap
        BY <3>1 DEF HeldMap, Held
      <3> QED
        BY <3>1, <3>2, CollectionStutters
    <2>2. CASE \E p \in Pods : Launch(p) \/ Refresh(p) \/ Stop(p)
      BY <2>2, PodStepSimulated
    <2> QED
      BY <2>1, <2>2 DEF Next
  <1> QED
    BY <1>1, <1>2, ShapeInvariant, PTL DEF Spec, ImplementsCollection, Collection!Spec
=============================================================================
