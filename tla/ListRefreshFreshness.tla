------------------------ MODULE ListRefreshFreshness ------------------------
(***************************************************************************)
(* Proofs about what a launch of ListRefresh without any failure achieves, *)
(* for every pointer graph and every number of pods: all parent lists are  *)
(* fresh when it comes to its save and, if it was forced, so are the lists *)
(* they point at.                                                          *)
(*                                                                         *)
(* The invariant follows the work that is left: what a loop has behind it  *)
(* is fresh.  It takes every frame of the call stack, since a frame gets   *)
(* its item done by a call of getTrustAnchors that is a frame itself.      *)
(***************************************************************************)
EXTENDS ListRefreshProofs

FreshDocument(u) == \E d \in lists : d.uri = u /\ ~Due(d)

\* What a clean launch has achieved when it is done with parent list u.
Refreshed(u) ==
  /\ FreshDocument(u)
  /\ InProduction => \A v \in ToSet(Pointers[u]) : FreshDocument(v)

Running(p) == pc[p] \notin Idle

\* Frame i is done with its own list and is at its pointers.
Following(p, i) == i < Len(stack[p]) \/ pc[p] \notin {"fetch", "stamp"}

\* A frame is the call for the item that the frame below is at.
CallsMatch(p) ==
  \A i \in 2 .. Len(stack[p]) : stack[p][i].list.uri = Head(stack[p][i - 1].todo)

RootDone(p) ==
  \A u \in ToSet(ParentLists) : u \in ToSet(stack[p][1].todo) \/ Refreshed(u)

\* The pointers of the call with frame f are fresh, as far as it is through them.
Followed(f) ==
  /\ ~Due(f.list)
  /\ \A v \in ToSet(Pointers[f.list.uri]) : v \in ToSet(f.todo) \/ FreshDocument(v)

CallsDone(p) ==
  \A i \in 2 .. Len(stack[p]) : Following(p, i) => Followed(stack[p][i])

Progress(p) ==
  clean[p] /\ Running(p) =>
    /\ CallsMatch(p)
    /\ RootDone(p)
    /\ CallsDone(p)
    /\ pc[p] = "stamp" => Top(stack[p]).todo = Pointers[Top(stack[p]).list.uri]
    /\ pc[p] = "save" => stack[p][1].todo = << >>

ProgressInv == \A p \in Pods : Progress(p)

-----------------------------------------------------------------------------
(* Freshness is kept while a pod is at work *)

\* The items of a loop are its head and what is left after it.
LEMMA ItemsLeft ==
  ASSUME NEW s \in Seq(Uris), s # << >>
  PROVE  ToSet(s) = {Head(s)} \cup ToSet(Tail(s))
  <1>1. /\ Len(s) \in Nat \ {0} /\ DOMAIN s = 1 .. Len(s)
        /\ Tail(s) \in Seq(Uris) /\ Head(s) = s[1]
        /\ Len(Tail(s)) = Len(s) - 1 /\ DOMAIN Tail(s) = 1 .. Len(s) - 1
        /\ \A i \in 1 .. Len(s) - 1 : Tail(s)[i] = s[i + 1]
    BY EmptySeq, LenProperties, HeadTailProperties
  <1>2. ASSUME NEW i \in 1 .. Len(s) PROVE s[i] \in {Head(s)} \cup ToSet(Tail(s))
    <2>1. CASE i = 1
      BY <1>1, <2>1
    <2>2. CASE i # 1
      <3>1. i - 1 \in 1 .. Len(s) - 1 /\ Tail(s)[i - 1] = s[i]
        BY <1>1, <2>2
      <3> QED
        BY <1>1, <3>1 DEF ToSet
    <2> QED
      BY <2>1, <2>2
  <1>3. ASSUME NEW i \in 1 .. Len(s) - 1 PROVE Tail(s)[i] \in ToSet(s)
    <2>1. i + 1 \in 1 .. Len(s) /\ Tail(s)[i] = s[i + 1]
      BY <1>1
    <2> QED
      BY <1>1, <2>1 DEF ToSet
  <1>4. Head(s) \in ToSet(s)
    BY <1>1 DEF ToSet
  <1> QED
    BY <1>1, <1>2, <1>3, <1>4 DEF ToSet

LEMMA NoItemsLeft == ToSet(<< >>) = {}
  <1>1. DOMAIN << >> = {}
    OBVIOUS
  <1> QED
    BY <1>1 DEF ToSet

\* No list becomes due and no document goes away in a step.
FreshnessKept ==
  /\ \A d \in ListIds : ~Due(d) => ~Due(d)'
  /\ \A u : FreshDocument(u) => FreshDocument(u)'
  /\ \A u : Refreshed(u) => Refreshed(u)'

\* Dates are only ever set to the time it is, and days only pass between launches.
LEMMA FreshStaysFresh ==
  ASSUME NEW p \in Pods, ShapeInv, Launch(p) \/ Refresh(p) \/ Stop(p)
  PROVE  FreshnessKept
  <1> USE DEF stored
  <1>1. clock' = clock /\ lists \subseteq lists'
    BY DEF Launch, Refresh, Stop, TakeItem, TakeItemFails, Find, Insert, FindFails, Fetch,
      FetchFails, Stamp, StampFails, Return, BeginSave, SaveAnchor, SaveAnchorFails, Ready
  <1>2. \A d \in ListIds : lastFetchDate'[d] = lastFetchDate[d] \/ lastFetchDate'[d] = clock
    <2>1. CASE Stamp(p)
      BY <2>1 DEF Stamp, ShapeInv, TypeOK
    <2>2. CASE ~Stamp(p)
      BY <2>2 DEF Launch, Refresh, Stop, TakeItem, TakeItemFails, Find, Insert, FindFails, Fetch,
        FetchFails, StampFails, Return, BeginSave, SaveAnchor, SaveAnchorFails, Ready
    <2> QED
      BY <2>1, <2>2
  <1>3. clock \in Nat /\ clock # Never /\ clock - clock = 0
    BY ConstantsAssumption DEF ShapeInv, TypeOK, Dates
  <1>4. \A d \in ListIds : ~Due(d) => ~Due(d)'
    BY <1>1, <1>2, <1>3, ConstantsAssumption DEF Due
  <1>5. \A u : FreshDocument(u) => FreshDocument(u)'
    BY <1>1, <1>4 DEF FreshDocument, ShapeInv, TypeOK
  <1>6. \A u : Refreshed(u) => Refreshed(u)'
    BY <1>5 DEF Refreshed
  <1> QED
    BY <1>4, <1>5, <1>6 DEF FreshnessKept

-----------------------------------------------------------------------------
(* The progress of a clean launch *)

\* A loop that gets past a fresh list has made progress.
LEMMA EndItemProgress ==
  ASSUME NEW p \in Pods, NEW t \in Seq(Frames), t # << >>, Top(t).todo # << >>,
         NEW new \in SUBSET Anchors, FreshnessKept,
         \A i \in 2 .. Len(t) : /\ t[i].list.uri = Head(t[i - 1].todo)
                                /\ t[i].list \in ListIds /\ Followed(t[i]),
         \A u \in ToSet(ParentLists) : u \in ToSet(t[1].todo) \/ Refreshed(u),
         NEW h, h = Head(Top(t).todo), FreshDocument(h)',
         Len(t) = 1 => Refreshed(h)',
         stack'[p] = EndItem(t, new), pc'[p] = "next"
  PROVE  Progress(p)'
  <1>1. /\ Len(stack'[p]) = Len(t) /\ Len(t) \in Nat \ {0}
        /\ Top(stack'[p]).list = Top(t).list
        /\ Top(stack'[p]).todo = Tail(Top(t).todo)
        /\ \A i \in 1 .. Len(t) - 1 : stack'[p][i] = t[i]
    BY EndItemLemma
  <1>2. /\ stack'[p][Len(t)].list = t[Len(t)].list
        /\ stack'[p][Len(t)].todo = Tail(t[Len(t)].todo)
    BY <1>1 DEF Top
  <1>3. /\ t[Len(t)].todo \in Seq(Uris)
        /\ ToSet(t[Len(t)].todo) = {h} \cup ToSet(stack'[p][Len(t)].todo)
    <2>1. Top(t) \in Frames
      BY SetTopLemma
    <2>2. Top(t).todo \in Seq(Uris)
      BY <2>1 DEF Frames
    <2> QED
      BY <1>2, <2>2, ItemsLeft DEF Top
  <1>4. CallsMatch(p)'
    <2>1. ASSUME NEW i \in 2 .. Len(t)
          PROVE  stack'[p][i].list.uri = Head(stack'[p][i - 1].todo)
      <3>1. stack'[p][i - 1] = t[i - 1] /\ stack'[p][i].list = t[i].list
        BY <1>1, <1>2
      <3> QED
        BY <3>1
    <2> QED
      BY <1>1, <2>1 DEF CallsMatch
  <1>5. RootDone(p)'
    <2>1. CASE Len(t) = 1
      BY <1>3, <2>1 DEF RootDone, FreshnessKept
    <2>2. CASE Len(t) # 1
      <3>1. stack'[p][1] = t[1]
        BY <1>1, <2>2
      <3> QED
        BY <3>1 DEF RootDone, FreshnessKept
    <2> QED
      BY <2>1, <2>2
  <1>6. CallsDone(p)'
    <2>1. ASSUME NEW i \in 2 .. Len(t)
          PROVE  /\ stack'[p][i].list = t[i].list
                 /\ \A v \in ToSet(t[i].todo) : v \in ToSet(stack'[p][i].todo) \/ v = h
      <3>1. CASE i = Len(t)
        BY <1>2, <1>3, <3>1
      <3>2. CASE i # Len(t)
        <4>1. i \in 1 .. Len(t) - 1
          BY <1>1, <3>2
        <4>2. stack'[p][i] = t[i]
          BY <1>1, <4>1
        <4> QED
          BY <4>2
      <3> QED
        BY <3>1, <3>2
    <2>2. ASSUME NEW i \in 2 .. Len(t) PROVE Followed(stack[p][i])'
      <3>1. ~Due(t[i].list)'
        BY DEF Followed, FreshnessKept
      <3>2. \A v \in ToSet(Pointers[t[i].list.uri]) : v \in ToSet(t[i].todo) \/ FreshDocument(v)'
        BY DEF Followed, FreshnessKept
      <3>3. stack'[p][i].list = t[i].list
        BY <2>1
      <3>4. ~Due(stack[p][i].list)'
        BY <3>1, <3>3 DEF Due
      <3> QED
        BY <2>1, <3>2, <3>3, <3>4 DEF Followed
    <2> QED
      BY <1>1, <2>2 DEF CallsDone
  <1> QED
    BY <1>4, <1>5, <1>6 DEF Progress

\* So has a step that leaves the frames what they are and calls nothing.
LEMMA SameProgress ==
  ASSUME NEW p \in Pods, ShapeInv, FreshnessKept, Progress(p), clean[p], Running(p),
         Len(stack'[p]) = Len(stack[p]),
         \A i \in 1 .. Len(stack[p]) : /\ stack'[p][i].list = stack[p][i].list
                                       /\ stack'[p][i].todo = stack[p][i].todo,
         Following(p, Len(stack[p])), pc'[p] # "stamp",
         pc'[p] = "save" => stack'[p][1].todo = << >>
  PROVE  Progress(p)'
  <1>1. Len(stack[p]) \in Nat \ {0}
    BY ActivePod DEF Running
  <1>2. CallsMatch(p)'
    BY DEF Progress, CallsMatch
  <1>3. RootDone(p)'
    <2>1. stack'[p][1].todo = stack[p][1].todo
      BY <1>1
    <2> QED
      BY <2>1 DEF Progress, RootDone, FreshnessKept
  <1>4. CallsDone(p)'
    <2>1. ASSUME NEW i \in 2 .. Len(stack[p]) PROVE Followed(stack[p][i])'
      <3>1. Followed(stack[p][i]) /\ stack[p][i].list \in ListIds
        BY <1>1 DEF Progress, CallsDone, Following, ShapeInv, Shape, TypeOK
      <3>2. ~Due(stack[p][i].list)'
        <4>1. \A d \in ListIds : ~Due(d) => ~Due(d)'
          BY DEF FreshnessKept
        <4>2. stack'[p][i].list = stack[p][i].list
          OBVIOUS
        <4> QED
          BY <3>1, <4>1, <4>2 DEF Followed, Due
      <3> QED
        BY <3>1, <3>2 DEF Followed, FreshnessKept
    <2> QED
      BY <2>1 DEF CallsDone
  <1> QED
    BY <1>2, <1>3, <1>4 DEF Progress

\* fetchTrustAnchors calls the parser, or the list is fresh as it is.
LEMMA VisitProgress ==
  ASSUME NEW p \in Pods, ShapeInv, FreshnessKept, Progress(p), clean[p],
         pc[p] \in {"find", "insert"}, NEW d \in ListIds, d \in lists', Visit(p, d),
         d.uri = Target(p), UNCHANGED <<clock, lastFetchDate>>
  PROVE  Progress(p)'
  <1>1. /\ stack[p] \in Seq(Frames) /\ stack[p] # << >> /\ Top(stack[p]).todo # << >>
        /\ Len(stack[p]) \in Nat \ {0} /\ Running(p)
        /\ \A i \in 2 .. Len(stack[p]) : stack[p][i].list \in ListIds
    BY ActivePod DEF Idle, Shape, Running, ShapeInv, TypeOK
  <1>2. \A i \in 2 .. Len(stack[p]) : Followed(stack[p][i])
    BY <1>1 DEF Progress, CallsDone, Following
  <1>3. CASE Wanted(p, d)
    <2> DEFINE f == [list |-> d, found |-> {}, todo |-> << >>]
    <2>1. f \in Frames /\ f.list = d
      BY EmptySeq DEF Frames
    <2>2. /\ stack' = [stack EXCEPT ![p] = Append(stack[p], f)]
          /\ pc' = [pc EXCEPT ![p] = "fetch"]
      BY <1>3 DEF Visit, SetStack, Goto
    <2> HIDE DEF f
    <2>3. stack'[p] = Append(stack[p], f) /\ pc'[p] = "fetch"
      BY <2>2 DEF ShapeInv, TypeOK
    <2>4. /\ Len(stack'[p]) = Len(stack[p]) + 1 /\ Top(stack'[p]) = f
          /\ \A i \in 1 .. Len(stack[p]) : stack'[p][i] = stack[p][i]
      BY <1>1, <2>1, <2>3, PushLemma
    <2>5. CallsMatch(p)'
      <3>1. ASSUME NEW i \in 2 .. Len(stack[p]) + 1
            PROVE  stack'[p][i].list.uri = Head(stack'[p][i - 1].todo)
        <4>1. CASE i \in 2 .. Len(stack[p])
          <5>1. i \in 1 .. Len(stack[p]) /\ i - 1 \in 1 .. Len(stack[p])
            BY <1>1, <4>1
          <5>2. stack'[p][i] = stack[p][i] /\ stack'[p][i - 1] = stack[p][i - 1]
            BY <2>4, <5>1
          <5> QED
            BY <1>1, <4>1, <5>2 DEF Progress, CallsMatch
        <4>2. CASE i = Len(stack[p]) + 1
          <5>1. stack'[p][i] = f /\ stack'[p][i - 1] = Top(stack[p])
            BY <1>1, <2>4, <4>2 DEF Top
          <5> QED
            BY <2>1, <5>1 DEF Target
        <4> QED
          BY <1>1, <4>1, <4>2
      <3> QED
        BY <2>4, <3>1 DEF CallsMatch
    <2>6. RootDone(p)'
      <3>1. stack'[p][1] = stack[p][1]
        BY <1>1, <2>4
      <3> QED
        BY <1>1, <3>1 DEF Progress, RootDone, FreshnessKept
    <2>7. CallsDone(p)'
      <3>1. ASSUME NEW i \in 2 .. Len(stack'[p]), Following(p, i)' PROVE Followed(stack[p][i])'
        <4>1. i \in 2 .. Len(stack[p])
          BY <1>1, <2>3, <2>4, <3>1 DEF Following
        <4>2. stack'[p][i] = stack[p][i] /\ Followed(stack[p][i]) /\ stack[p][i].list \in ListIds
          BY <1>1, <1>2, <2>4, <4>1
        <4>3. ~Due(stack[p][i].list)'
          BY <4>2 DEF Followed, Due
        <4> QED
          BY <4>2, <4>3 DEF Followed, FreshnessKept
      <3> QED
        BY <3>1 DEF CallsDone
    <2> QED
      BY <2>3, <2>5, <2>6, <2>7 DEF Progress
  <1>4. CASE ~Wanted(p, d)
    <2>1. stack'[p] = EndItem(stack[p], {}) /\ pc'[p] = "next" /\ {} \in SUBSET Anchors
      BY <1>4 DEF Visit, SetStack, Goto, ShapeInv, TypeOK
    <2>2. PICK h : h = Head(Top(stack[p]).todo)
      OBVIOUS
    <2>3. FreshDocument(h)'
      <3>1. d.uri = h /\ ~Due(d)
        BY <1>4, <2>2 DEF Target, Wanted
      <3> QED
        BY <3>1 DEF FreshDocument, FreshnessKept
    <2>4. Len(stack[p]) = 1 => Refreshed(h)'
      BY <1>4, <2>3 DEF Wanted, AtRoot, Refreshed
    <2> QED
      BY <1>1, <1>2, <2>1, <2>2, <2>3, <2>4, EndItemProgress DEF Progress, CallsMatch, RootDone
  <1> QED
    BY <1>3, <1>4

\* getTrustAnchors returns: its list and all its pointers are fresh.
LEMMA ReturnProgress ==
  ASSUME NEW p \in Pods, ShapeInv, FreshnessKept, Progress(p), clean[p], Return(p)
  PROVE  Progress(p)'
  <1>1. /\ stack[p] \in Seq(Frames) /\ Top(stack[p]) \in Frames
        /\ Len(stack[p]) \in Nat \ {0} /\ Shape(p) /\ Running(p) /\ pc[p] = "next"
        /\ \A i \in 2 .. Len(stack[p]) : stack[p][i].list \in lists /\ stack[p][i].list \in ListIds
    BY ActivePod DEF Return, Idle, Running, ShapeInv, Shape, TypeOK
  <1>2. Len(stack[p]) > 1
    <2>1. \A n \in Nat \ {0} : n = 1 \/ n > 1
      OBVIOUS
    <2> QED
      BY <1>1, <2>1, Zenon DEF Return, AtRoot
  <1>3. \A i \in 2 .. Len(stack[p]) : /\ Followed(stack[p][i])
                                      /\ stack[p][i].list.uri = Head(stack[p][i - 1].todo)
    BY <1>1 DEF Progress, CallsDone, CallsMatch, Following
  <1> DEFINE r == Front(stack[p])
  <1>4. /\ r \in Seq(Frames) /\ r # << >>
        /\ Len(r) = Len(stack[p]) - 1
        /\ \A i \in 1 .. Len(stack[p]) - 1 : r[i] = stack[p][i]
    BY <1>1, <1>2, PopLemma
  <1>5. stack'[p] = EndItem(r, Top(stack[p]).found) /\ pc'[p] = "next"
    BY <1>1 DEF Return, SetStack, ShapeInv, TypeOK
  <1> HIDE DEF r
  <1>6. Top(r) = stack[p][Len(stack[p]) - 1] /\ Top(r).todo # << >>
    <2>1. Len(stack[p]) - 1 \in 1 .. Len(stack[p]) - 1
      BY <1>1, <1>2
    <2> QED
      BY <1>1, <1>4, <2>1 DEF Top, Shape
  <1>7. PICK h : h = Head(Top(r).todo)
    OBVIOUS
  <1>8. /\ Top(stack[p]).list \in lists /\ Top(stack[p]).list \in ListIds
        /\ Followed(Top(stack[p])) /\ Top(stack[p]).list.uri = h
    <2>1. Len(stack[p]) \in 2 .. Len(stack[p])
      BY <1>1, <1>2
    <2> QED
      BY <1>1, <1>3, <1>6, <1>7, <2>1 DEF Top
  <1>9. FreshDocument(h)
    BY <1>8 DEF Followed, FreshDocument
  <1>10. Refreshed(h)
    <2>1. ToSet(Top(stack[p]).todo) = {}
      BY NoItemsLeft DEF Return
    <2> QED
      BY <1>8, <1>9, <2>1 DEF Followed, Refreshed
  <1>11. Top(stack[p]).found \in SUBSET Anchors
    BY <1>1 DEF Frames
  <1>12. \A i \in 2 .. Len(r) : /\ r[i].list.uri = Head(r[i - 1].todo)
                                /\ r[i].list \in ListIds /\ Followed(r[i])
    <2> SUFFICES ASSUME NEW i \in 2 .. Len(r)
                 PROVE  /\ r[i].list.uri = Head(r[i - 1].todo)
                        /\ r[i].list \in ListIds /\ Followed(r[i])
      OBVIOUS
    <2>1. i \in 2 .. Len(stack[p]) /\ r[i] = stack[p][i] /\ r[i - 1] = stack[p][i - 1]
      BY <1>1, <1>4
    <2> QED
      BY <1>1, <1>3, <2>1
  <1>13. \A u \in ToSet(ParentLists) : u \in ToSet(r[1].todo) \/ Refreshed(u)
    <2>1. r[1] = stack[p][1]
      BY <1>1, <1>2, <1>4
    <2> QED
      BY <1>1, <2>1 DEF Progress, RootDone
  <1>14. FreshDocument(h)' /\ Refreshed(h)'
    BY <1>9, <1>10 DEF FreshnessKept
  <1> QED
    BY <1>4, <1>5, <1>6, <1>7, <1>11, <1>12, <1>13, <1>14, EndItemProgress

\* A step of another pod does no harm.
LEMMA OtherProgress ==
  ASSUME NEW p \in Pods, NEW q \in Pods \ {p}, ShapeInv, Progress(q),
         Launch(p) \/ Refresh(p) \/ Stop(p)
  PROVE  Progress(q)'
  <1>1. stack'[q] = stack[q]
    BY HeldByStep
  <1>2. pc'[q] = pc[q] /\ clean'[q] = clean[q]
    BY DEF Launch, Refresh, Stop, TakeItem, TakeItemFails, Find, Insert, FindFails, Fetch,
      FetchFails, Stamp, StampFails, Return, BeginSave, SaveAnchor, SaveAnchorFails, Ready,
      Goto, Failure, Visit, ShapeInv, TypeOK
  <1>3. FreshnessKept
    BY FreshStaysFresh
  <1>4. CASE ~(clean[q] /\ Running(q))
    BY <1>2, <1>4 DEF Progress, Running
  <1>5. CASE clean[q] /\ Running(q)
    <2>1. CallsMatch(q)' /\ RootDone(q)'
      BY <1>1, <1>3, <1>5 DEF Progress, CallsMatch, RootDone, FreshnessKept
    <2>2. CallsDone(q)'
      <3>1. ASSUME NEW i \in 2 .. Len(stack[q]), Following(q, i) PROVE Followed(stack[q][i])'
        <4>1. Followed(stack[q][i]) /\ stack[q][i].list \in ListIds
          BY <1>5, <3>1 DEF Progress, CallsDone, ShapeInv, Shape, TypeOK
        <4>2. ~Due(stack[q][i].list)'
          BY <1>1, <1>3, <4>1 DEF Followed, Due, FreshnessKept
        <4> QED
          BY <1>1, <1>3, <4>1, <4>2 DEF Followed, FreshnessKept
      <3> QED
        BY <1>1, <1>2, <3>1 DEF CallsDone, Following
    <2> QED
      BY <1>1, <1>2, <1>5, <2>1, <2>2 DEF Progress, Top
  <1> QED
    BY <1>4, <1>5

LEMMA ProgressStep ==
  ASSUME NEW p \in Pods, ShapeInv, Progress(p), Launch(p) \/ Refresh(p) \/ Stop(p)
  PROVE  Progress(p)'
  <1> USE DEF stored
  <1>1. FreshnessKept
    BY FreshStaysFresh
  <1>2. SUFFICES ASSUME clean'[p], Running(p)' PROVE Progress(p)'
    BY DEF Progress
  <1>3. /\ stack \in [Pods -> Seq(Frames)] /\ clean \in [Pods -> BOOLEAN]
        /\ pc \in [Pods -> Idle \cup {"next", "find", "insert", "fetch", "stamp", "save"}]
    BY DEF ShapeInv, TypeOK
  <1>4. CASE Launch(p)
    <2> DEFINE f == [list |-> NoList, found |-> {}, todo |-> ParentLists]
    <2>1. stack'[p] = <<f>> /\ pc'[p] = "next" /\ f.todo = ParentLists
      BY <1>3, <1>4 DEF Launch, SetStack, Goto
    <2> HIDE DEF f
    <2>2. stack'[p][1] = f /\ 2 .. Len(stack'[p]) = {}
      BY <2>1
    <2> QED
      BY <2>1, <2>2 DEF Progress, CallsMatch, RootDone, CallsDone
  <1>5. CASE Refresh(p)
    <2>1. clean[p] /\ Running(p)
      BY <1>2, <1>3, <1>5 DEF Refresh, TakeItem, TakeItemFails, Find, Insert, FindFails, Fetch,
        FetchFails, Stamp, StampFails, Return, BeginSave, SaveAnchor, SaveAnchorFails, Ready,
        Failure, Running, Idle
    <2>2. /\ stack[p] \in Seq(Frames) /\ stack[p] # << >> /\ Top(stack[p]) \in Frames
          /\ Len(stack[p]) \in Nat \ {0} /\ Shape(p)
      BY <2>1, ActivePod DEF Running
    <2>3. CASE TakeItemFails(p) \/ FindFails(p) \/ FetchFails(p) \/ StampFails(p) \/ SaveAnchorFails(p)
      BY <1>2, <1>3, <2>3 DEF TakeItemFails, FindFails, FetchFails, StampFails, SaveAnchorFails, Failure
    <2>4. CASE TakeItem(p) \/ BeginSave(p)
      <3>1. /\ UNCHANGED stack /\ pc[p] = "next" /\ pc'[p] \in {"find", "save"}
            /\ pc'[p] = "save" => AtRoot(p) /\ Top(stack[p]).todo = << >>
        BY <1>3, <2>4 DEF TakeItem, BeginSave, Goto
      <3>2. pc'[p] = "save" => stack'[p][1].todo = << >>
        BY <3>1 DEF AtRoot, Top
      <3> QED
        BY <1>1, <2>1, <3>1, <3>2, SameProgress DEF Following
    <2>5. CASE Find(p)
      <3>1. CASE \E d \in lists : Visit(p, d) /\ d.uri = Target(p)
        BY <1>1, <2>1, <2>5, <3>1, VisitProgress DEF Find, ShapeInv, TypeOK
      <3>2. CASE Goto(p, "insert") /\ UNCHANGED stack
        <4>1. pc[p] = "find" /\ pc'[p] = "insert"
          BY <1>3, <2>5, <3>2 DEF Find, Goto
        <4> QED
          BY <1>1, <2>1, <3>2, <4>1, SameProgress DEF Following
      <3> QED
        BY <2>5, <3>1, <3>2 DEF Find
    <2>6. CASE Insert(p)
      <3> DEFINE d == [uri |-> Target(p), by |-> p]
      <3>1. Top(stack[p]).todo \in Seq(Uris) /\ Top(stack[p]).todo # << >>
        BY <2>2, <2>6 DEF Insert, Shape, Frames
      <3>2. d \in ListIds /\ d.uri = Target(p)
        BY <3>1, HeadTailProperties DEF Target, ListIds
      <3>3. Visit(p, d) /\ d \in lists'
        BY <2>6 DEF Insert
      <3> HIDE DEF d
      <3> QED
        BY <1>1, <2>1, <2>6, <3>2, <3>3, VisitProgress DEF Insert
    <2>7. CASE Fetch(p)
      <3>1. Len(stack[p]) >= 2
        BY <2>2, <2>7 DEF Fetch, Shape
      <3>2. Top(stack[p]).list \in ListIds
        BY <2>1, <3>1, CalledList DEF Running
      <3>3. PICK served \in SUBSET Offers[Top(stack[p]).list.uri] :
              SetStack(p, SetTop(stack[p], [list  |-> Top(stack[p]).list,
                                            found |-> AnchorsOf(Top(stack[p]).list, served),
                                            todo  |-> Pointers[Top(stack[p]).list.uri]]))
        BY <2>7 DEF Fetch
      <3> DEFINE f == [list  |-> Top(stack[p]).list,
                       found |-> AnchorsOf(Top(stack[p]).list, served),
                       todo  |-> Pointers[Top(stack[p]).list.uri]]
      <3>4. /\ f \in Frames /\ f.list = Top(stack[p]).list
            /\ f.todo = Pointers[Top(stack[p]).list.uri]
        <4>1. Top(stack[p]).list.uri \in Uris /\ served \subseteq Certs
          BY <3>2, ConstantsAssumption DEF ListIds
        <4> QED
          BY <3>2, <4>1, ConstantsAssumption DEF Frames, Anchors, AnchorsOf
      <3>5. stack'[p] = SetTop(stack[p], f) /\ pc'[p] = "stamp"
        BY <1>3, <2>7, <3>3 DEF SetStack, Fetch, Goto
      <3> HIDE DEF f
      <3>6. /\ Len(stack'[p]) = Len(stack[p]) /\ Top(stack'[p]) = f
            /\ \A i \in 1 .. Len(stack[p]) - 1 : stack'[p][i] = stack[p][i]
        <4>1. ASSUME NEW g \in Frames
              PROVE  /\ Len(SetTop(stack[p], g)) = Len(stack[p]) /\ Top(SetTop(stack[p], g)) = g
                     /\ \A i \in 1 .. Len(stack[p]) - 1 : SetTop(stack[p], g)[i] = stack[p][i]
          BY <2>2, SetTopLemma
        <4> QED
          BY <3>4, <3>5, <4>1
      <3>7. \A i \in 2 .. Len(stack[p]) : /\ stack'[p][i].list = stack[p][i].list
                                          /\ stack'[p][i - 1] = stack[p][i - 1]
        BY <2>2, <3>4, <3>6 DEF Top
      <3>8. CallsMatch(p)'
        BY <2>1, <3>6, <3>7 DEF Progress, CallsMatch
      <3>9. RootDone(p)'
        <4>1. stack'[p][1] = stack[p][1]
          BY <2>2, <3>1, <3>6
        <4> QED
          BY <1>1, <2>1, <4>1 DEF Progress, RootDone, FreshnessKept
      <3>10. CallsDone(p)'
        <4>1. ASSUME NEW i \in 2 .. Len(stack'[p]), Following(p, i)' PROVE Followed(stack[p][i])'
          <5>1. i \in 2 .. Len(stack[p]) /\ i < Len(stack[p])
            BY <3>5, <3>6, <4>1 DEF Following
          <5>2. /\ stack'[p][i] = stack[p][i] /\ Followed(stack[p][i])
                /\ stack[p][i].list \in ListIds
            BY <2>1, <2>2, <3>6, <5>1 DEF Progress, CallsDone, Following, Shape, ShapeInv, TypeOK
          <5>3. ~Due(stack[p][i].list)'
            BY <1>1, <5>2 DEF Followed, Due, FreshnessKept
          <5> QED
            BY <1>1, <5>2, <5>3 DEF Followed, FreshnessKept
        <4> QED
          BY <4>1 DEF CallsDone
      <3> QED
        BY <3>4, <3>5, <3>6, <3>8, <3>9, <3>10 DEF Progress
    <2>8. CASE Stamp(p)
      <3>1. /\ UNCHANGED <<stack, clock>> /\ pc'[p] = "next" /\ Len(stack[p]) >= 2
            /\ pc[p] = "stamp"
        BY <1>3, <2>2, <2>8 DEF Stamp, Goto, Shape
      <3>2. Top(stack[p]).list \in ListIds
        BY <2>1, <3>1, CalledList DEF Running
      <3>3. lastFetchDate'[Top(stack[p]).list] = clock
        BY <2>8, <3>2 DEF Stamp, ShapeInv, TypeOK
      <3>4. ~Due(Top(stack[p]).list)'
        <4>1. clock \in Nat /\ clock # Never /\ clock - clock = 0
          BY ConstantsAssumption DEF ShapeInv, TypeOK, Dates
        <4> QED
          BY <3>1, <3>3, <4>1, ConstantsAssumption DEF Due, Top
      <3>5. Followed(stack[p][Len(stack[p])])'
        <4>1. Top(stack[p]).todo = Pointers[Top(stack[p]).list.uri]
          BY <2>1, <3>1 DEF Progress
        <4> QED
          BY <3>1, <3>4, <4>1 DEF Followed, Top
      <3>6. ASSUME NEW i \in 2 .. Len(stack[p]), i < Len(stack[p]) PROVE Followed(stack[p][i])'
        <4>1. Followed(stack[p][i]) /\ stack[p][i].list \in ListIds
          BY <2>1, <2>2, <3>6 DEF Progress, CallsDone, Following, Shape, ShapeInv, TypeOK
        <4>2. ~Due(stack[p][i].list)'
          BY <1>1, <3>1, <4>1 DEF Followed, Due, FreshnessKept
        <4> QED
          BY <1>1, <3>1, <4>1, <4>2 DEF Followed, FreshnessKept
      <3>7. CallsDone(p)'
        <4>1. \A i \in 2 .. Len(stack[p]) : i < Len(stack[p]) \/ i = Len(stack[p])
          BY <2>2
        <4> QED
          BY <3>1, <3>5, <3>6, <4>1 DEF CallsDone
      <3>8. CallsMatch(p)' /\ RootDone(p)'
        BY <1>1, <2>1, <3>1 DEF Progress, CallsMatch, RootDone, FreshnessKept
      <3> QED
        BY <3>1, <3>7, <3>8 DEF Progress
    <2>9. CASE Return(p)
      BY <1>1, <2>1, <2>9, ReturnProgress
    <2>10. CASE SaveAnchor(p)
      <3>1. PICK a \in Pending(p) : Settle(p, a)
        BY <2>10 DEF SaveAnchor
      <3> DEFINE f == [Top(stack[p]) EXCEPT !.found = @ \ {a}]
      <3>2. f \in Frames /\ f.list = Top(stack[p]).list /\ f.todo = Top(stack[p]).todo
        BY <2>2 DEF Frames
      <3>3. stack'[p] = SetTop(stack[p], f)
        BY <1>3, <3>1 DEF Settle, SetStack
      <3> HIDE DEF f
      <3>4. Len(stack[p]) = 1 /\ pc[p] = "save" /\ pc'[p] = "save"
        BY <1>3, <2>2, <2>10 DEF SaveAnchor, Shape
      <3>5. Len(stack'[p]) = 1 /\ stack'[p][1] = f
        <4>1. ASSUME NEW g \in Frames
              PROVE  Len(SetTop(stack[p], g)) = Len(stack[p]) /\ Top(SetTop(stack[p], g)) = g
          BY <2>2, SetTopLemma
        <4> QED
          BY <3>2, <3>3, <3>4, <4>1 DEF Top
      <3>6. stack'[p][1].todo = << >> /\ \A i \in 1 .. Len(stack[p]) : i = 1
        BY <2>1, <3>2, <3>4, <3>5 DEF Progress, Top
      <3> QED
        BY <1>1, <2>1, <3>2, <3>4, <3>5, <3>6, SameProgress DEF Following, Top
    <2>11. CASE Ready(p)
      BY <1>2, <1>3, <2>11 DEF Ready, Goto, Running, Idle
    <2> QED
      BY <1>5, <2>3, <2>4, <2>5, <2>6, <2>7, <2>8, <2>9, <2>10, <2>11 DEF Refresh
  <1>6. CASE Stop(p)
    BY <1>2, <1>3, <1>6 DEF Stop
  <1> QED
    BY <1>4, <1>5, <1>6

LEMMA ProgressNext == ShapeInv /\ ProgressInv /\ [Next]_vars => ProgressInv'
  <1> SUFFICES ASSUME ShapeInv, ProgressInv, [Next]_vars PROVE ProgressInv'
    OBVIOUS
  <1>1. ASSUME NEW p \in Pods, Launch(p) \/ Refresh(p) \/ Stop(p) PROVE ProgressInv'
    BY <1>1, ProgressStep, OtherProgress DEF ProgressInv
  <1>2. CASE ClockMoves
    BY <1>2 DEF ClockMoves, ProgressInv, Progress, Running
  <1>3. CASE UNCHANGED vars
    <2>1. UNCHANGED <<clock, lists, lastFetchDate, pc, stack, clean>>
      BY <1>3 DEF vars, stored
    <2>2. \A u : /\ FreshDocument(u)' <=> FreshDocument(u)
                 /\ Refreshed(u)' <=> Refreshed(u)
      BY <2>1 DEF FreshDocument, Refreshed, Due
    <2>3. ASSUME NEW p \in Pods PROVE Progress(p)'
      <3>1. CallsDone(p) => CallsDone(p)'
        BY <2>1, <2>2 DEF CallsDone, Following, Followed, Due
      <3> QED
        BY <2>1, <2>2, <3>1 DEF ProgressInv, Progress, Running, CallsMatch, RootDone, Top
    <2> QED
      BY <2>3 DEF ProgressInv
  <1> QED
    BY <1>1, <1>2, <1>3 DEF Next

\* A list that is not due has a date less than the interval away.
LEMMA FreshIsRecent ==
  ASSUME TypeOK, NEW u, FreshDocument(u)
  PROVE  RecentDocument(u)
  <1>1. PICK d \in lists : d.uri = u /\ ~Due(d)
    BY DEF FreshDocument
  <1>2. lastFetchDate[d] \in Int \ {Never} /\ clock \in Int /\ FetchInterval \in Int
    BY <1>1, ConstantsAssumption DEF Due, TypeOK, Dates
  <1>3. lastFetchDate[d] \in RecentDates \ {Never}
    BY <1>1, <1>2 DEF Due, RecentDates
  <1> QED
    BY <1>1, <1>3 DEF RecentDocument

\* A launch in which nothing failed brings all parent lists up to date and, if it
\* was forced, all the lists that they point at, whatever was due before, whatever
\* the lists point at and whatever other pods do meanwhile.
THEOREM CleanLaunchRefreshes == Spec => []CleanLaunchIsFresh
  <1>1. Init => ProgressInv
    BY DEF Init, ProgressInv, Progress
  <1>2. ShapeInv /\ ProgressInv => CleanLaunchIsFresh
    <2> SUFFICES ASSUME ShapeInv, ProgressInv, NEW p \in Pods, pc[p] = "save", clean[p],
                        NEW u \in ToSet(ParentLists)
                 PROVE  Refreshed(u)
      BY FreshIsRecent DEF CleanLaunchIsFresh, Refreshed, ShapeInv
    <2> QED
      BY NoItemsLeft DEF ProgressInv, Progress, RootDone, Running, Idle
  <1> QED
    BY <1>1, <1>2, ProgressNext, ShapeInvariant, PTL DEF Spec

-----------------------------------------------------------------------------
(* What a forced launch makes of the anchors of the parent lists *)

OnePod == \A p, q \in Pods : p = q

\* All that the last download of d held is stored or held by a launch.
Accounted(d) == AnchorsOf(d, lastSeen[d]) \subseteq Kept

\* Every parent list is still to be visited or accounted for, and so are the lists
\* of all calls that have downloaded theirs.
Repair(p) ==
  InProduction /\ clean[p] /\ pc[p] # "down" =>
    /\ \A d \in ListIds : d.uri \in ToSet(ParentLists) =>
         \/ Running(p) /\ d.uri \in ToSet(stack[p][1].todo)
         \/ Accounted(d)
    /\ \A i \in 2 .. Len(stack[p]) :
         i < Len(stack[p]) \/ pc[p] # "fetch" => Accounted(stack[p][i].list)

RepairInv == \A p \in Pods : Repair(p)

\* A step of a clean launch loses nothing that was accounted for, and a download
\* accounts for its list.
LEMMA AccountedStays ==
  ASSUME OnePod, NEW p \in Pods, ShapeInv, Refresh(p), clean'[p]
  PROVE  /\ \A d \in ListIds : Accounted(d) => Accounted(d)'
         /\ Fetch(p) => \E d \in ListIds : d = Top(stack[p]).list /\ Accounted(d)'
  <1>1. HeldStep(p) /\ \A q \in Pods : q = p
    BY HeldByStep DEF OnePod
  <1>2. Kept = anchors \cup Held(p) /\ Kept' = anchors' \cup Held(p)'
    BY <1>1 DEF Kept, Held
  <1>3. Kept \subseteq Kept'
    BY <1>1, <1>2 DEF HeldStep
  <1>4. CASE Fetch(p)
    <2>1. PICK d \in lists : /\ d = Top(stack[p]).list /\ d \in ListIds
                             /\ lastSeen' = [lastSeen EXCEPT ![d] = lastSeen'[d]]
      BY <1>4, FetchServes
    <2>2. AnchorsOf(d, lastSeen'[d]) \subseteq Kept'
      BY <1>1, <1>2, <1>4, <2>1 DEF HeldStep
    <2>3. \A e \in ListIds : e # d => lastSeen'[e] = lastSeen[e]
      BY <2>1 DEF ShapeInv, TypeOK
    <2> QED
      BY <1>3, <2>1, <2>2, <2>3 DEF Accounted, AnchorsOf
  <1>5. CASE ~Fetch(p)
    BY <1>3, <1>5, SeenByFetch DEF Accounted, AnchorsOf
  <1> QED
    BY <1>4, <1>5

\* A loop is the outermost one, or there is one below it.
LEMMA MoreThanOne == \A n \in Nat \ {0} : n = 1 \/ 1 \in 1 .. n - 1
  OBVIOUS

\* A step passes no parent list that is not accounted for.
RootKept(p) ==
  \A u \in ToSet(stack[p][1].todo) :
    u \in ToSet(stack'[p][1].todo) \/ \A d \in ListIds : d.uri = u => Accounted(d)

\* It leaves a call that has downloaded its list where it was before it.
CallsKept(p) ==
  \A i \in 2 .. Len(stack'[p]) :
    i < Len(stack'[p]) \/ pc'[p] # "fetch" =>
      /\ i \in 2 .. Len(stack[p]) /\ stack'[p][i].list = stack[p][i].list
      /\ Accounted(stack[p][i].list) \/ (Fetch(p) /\ stack[p][i].list = Top(stack[p]).list)

LEMMA RepairKept ==
  ASSUME OnePod, NEW p \in Pods, ShapeInv, Refresh(p), clean[p], clean'[p], Running(p), Repair(p),
         Running(p)', RootKept(p), CallsKept(p)
  PROVE  Repair(p)'
  <1>1. /\ \A d \in ListIds : Accounted(d) => Accounted(d)'
        /\ Fetch(p) => \E d \in ListIds : d = Top(stack[p]).list /\ Accounted(d)'
    BY AccountedStays
  <1>2. pc[p] # "down"
    BY DEF Running, Idle
  <1>3. ASSUME InProduction, NEW d \in ListIds, d.uri \in ToSet(ParentLists)
        PROVE  d.uri \in ToSet(stack'[p][1].todo) \/ Accounted(d)'
    <2>1. d.uri \in ToSet(stack[p][1].todo) \/ Accounted(d)
      BY <1>2, <1>3 DEF Repair
    <2> QED
      BY <1>1, <1>3, <2>1 DEF RootKept
  <1>4. ASSUME NEW i \in 2 .. Len(stack'[p]), i < Len(stack'[p]) \/ pc'[p] # "fetch"
        PROVE  \E e \in ListIds : e = stack'[p][i].list /\ Accounted(e)'
    <2>1. /\ i \in 2 .. Len(stack[p]) /\ stack'[p][i].list = stack[p][i].list
          /\ Accounted(stack[p][i].list) \/ (Fetch(p) /\ stack[p][i].list = Top(stack[p]).list)
      BY <1>4 DEF CallsKept
    <2>2. stack[p][i].list \in ListIds
      BY <2>1 DEF ShapeInv, Shape, TypeOK
    <2>3. PICK e \in ListIds : e = stack[p][i].list
      BY <2>2
    <2>4. Accounted(e) => Accounted(e)'
      BY <1>1
    <2>5. Accounted(e)'
      <3>1. CASE Accounted(stack[p][i].list)
        BY <2>3, <2>4, <3>1 DEF Accounted
      <3>2. CASE Fetch(p) /\ stack[p][i].list = Top(stack[p]).list
        <4>1. PICK g \in ListIds : g = Top(stack[p]).list /\ Accounted(g)'
          BY <1>1, <3>2
        <4>2. g = e
          BY <2>3, <3>2, <4>1
        <4> QED
          BY <4>1, <4>2
      <3> QED
        BY <2>1, <3>1, <3>2
    <2> QED
      BY <2>1, <2>3, <2>5
  <1>5. ASSUME NEW i \in 2 .. Len(stack'[p]), i < Len(stack'[p]) \/ pc'[p] # "fetch"
        PROVE  Accounted(stack[p][i].list)'
    BY <1>4, <1>5 DEF Accounted
  <1> QED
    BY <1>3, <1>5 DEF Repair

LEMMA RepairStep ==
  ASSUME OnePod, NEW p \in Pods, ShapeInv, Progress(p), Repair(p),
         Launch(p) \/ Refresh(p) \/ Stop(p)
  PROVE  Repair(p)'
  <1> USE DEF stored
  <1>1. SUFFICES ASSUME InProduction, clean'[p] PROVE Repair(p)'
    BY DEF Repair
  <1>2. /\ stack \in [Pods -> Seq(Frames)] /\ clean \in [Pods -> BOOLEAN]
        /\ pc \in [Pods -> Idle \cup {"next", "find", "insert", "fetch", "stamp", "save"}]
    BY DEF ShapeInv, TypeOK
  <1>3. CASE Launch(p)
    <2> DEFINE f == [list |-> NoList, found |-> {}, todo |-> ParentLists]
    <2>1. stack'[p] = <<f>> /\ pc'[p] = "next" /\ f.todo = ParentLists
      BY <1>2, <1>3 DEF Launch, SetStack, Goto
    <2> HIDE DEF f
    <2>2. stack'[p][1] = f /\ 2 .. Len(stack'[p]) = {}
      BY <2>1
    <2> QED
      BY <2>1, <2>2 DEF Repair, Running, Idle
  <1>4. CASE Refresh(p)
    <2>1. clean[p] /\ Running(p)
      BY <1>1, <1>2, <1>4 DEF Refresh, TakeItem, TakeItemFails, Find, Insert, FindFails, Fetch,
        FetchFails, Stamp, StampFails, Return, BeginSave, SaveAnchor, SaveAnchorFails, Ready,
        Failure, Running, Idle
    <2>2. /\ stack[p] \in Seq(Frames) /\ stack[p] # << >> /\ Top(stack[p]) \in Frames
          /\ Len(stack[p]) \in Nat \ {0} /\ Shape(p)
      BY <2>1, ActivePod DEF Running
    <2>3. \A i \in 2 .. Len(stack[p]) :
            i < Len(stack[p]) \/ pc[p] # "fetch" => Accounted(stack[p][i].list)
      BY <1>1, <2>1 DEF Repair, Running, Idle
    <2>4. CASE TakeItemFails(p) \/ FindFails(p) \/ FetchFails(p) \/ StampFails(p) \/ SaveAnchorFails(p)
      BY <1>1, <1>2, <2>4 DEF TakeItemFails, FindFails, FetchFails, StampFails, SaveAnchorFails, Failure
    <2>a. ASSUME UNCHANGED stack, pc[p] # "fetch", Running(p)' PROVE Repair(p)'
      <3>1. RootKept(p)
        BY <2>a DEF RootKept
      <3>2. CallsKept(p)
        BY <2>3, <2>a DEF CallsKept
      <3> QED
        BY <1>1, <1>4, <2>1, <2>a, <3>1, <3>2, RepairKept
    <2>5. CASE TakeItem(p) \/ BeginSave(p) \/ Stamp(p)
      BY <1>2, <2>5, <2>a DEF TakeItem, BeginSave, Stamp, Goto, Running, Idle
    <2>b. ASSUME NEW d \in ListIds, Visit(p, d), pc[p] \in {"find", "insert"} PROVE Repair(p)'
      <3>1. CASE Wanted(p, d)
        <4> DEFINE f == [list |-> d, found |-> {}, todo |-> << >>]
        <4>1. f \in Frames
          BY EmptySeq DEF Frames
        <4>2. stack'[p] = Append(stack[p], f) /\ pc'[p] = "fetch"
          BY <1>2, <2>b, <3>1 DEF Visit, SetStack, Goto
        <4> HIDE DEF f
        <4>3. /\ Len(stack'[p]) = Len(stack[p]) + 1
              /\ \A i \in 1 .. Len(stack[p]) : stack'[p][i] = stack[p][i]
          BY <2>2, <4>1, <4>2, PushLemma
        <4>4. \A i \in 2 .. Len(stack'[p]) : i < Len(stack'[p]) =>
                i \in 2 .. Len(stack[p]) /\ stack'[p][i] = stack[p][i]
          BY <2>2, <4>3
        <4>5. stack'[p][1] = stack[p][1] /\ Running(p)'
          BY <2>2, <4>2, <4>3 DEF Running, Idle
        <4>6. RootKept(p)
          BY <4>5 DEF RootKept
        <4>7. CallsKept(p)
          BY <2>2, <2>3, <2>b, <4>2, <4>4 DEF CallsKept
        <4> QED
          BY <1>1, <1>4, <2>1, <4>5, <4>6, <4>7, RepairKept
      <3>2. CASE ~Wanted(p, d)
        <4>1. stack'[p] = EndItem(stack[p], {}) /\ pc'[p] = "next" /\ ~AtRoot(p)
          BY <1>1, <1>2, <2>b, <3>2 DEF Visit, SetStack, Goto, Wanted
        <4>2. Top(stack[p]).todo # << >> /\ {} \in SUBSET Anchors
          BY <2>2, <2>b DEF Shape
        <4>3. /\ Len(stack'[p]) = Len(stack[p]) /\ Top(stack'[p]).list = Top(stack[p]).list
              /\ \A i \in 1 .. Len(stack[p]) - 1 : stack'[p][i] = stack[p][i]
          BY <2>2, <4>1, <4>2, EndItemLemma
        <4>4. \A i \in 2 .. Len(stack'[p]) : stack'[p][i].list = stack[p][i].list
          BY <2>2, <4>3 DEF Top
        <4>5. stack'[p][1] = stack[p][1] /\ Running(p)'
          <5>1. 1 \in 1 .. Len(stack[p]) - 1
            BY <2>2, <4>1, MoreThanOne, Zenon DEF AtRoot
          <5> QED
            BY <4>1, <4>3, <5>1 DEF Running, Idle
        <4>6. RootKept(p)
          BY <4>5 DEF RootKept
        <4>7. CallsKept(p)
          BY <2>2, <2>3, <2>b, <4>3, <4>4 DEF CallsKept
        <4> QED
          BY <1>1, <1>4, <2>1, <4>5, <4>6, <4>7, RepairKept
      <3> QED
        BY <3>1, <3>2
    <2>6. CASE Find(p)
      <3>1. CASE \E d \in lists : Visit(p, d)
        BY <2>6, <2>b, <3>1 DEF Find, ShapeInv, TypeOK
      <3>2. CASE Goto(p, "insert") /\ UNCHANGED stack
        BY <1>2, <2>6, <2>a, <3>2 DEF Find, Goto, Running, Idle
      <3> QED
        BY <2>6, <3>1, <3>2 DEF Find
    <2>7. CASE Insert(p)
      <3> DEFINE d == [uri |-> Target(p), by |-> p]
      <3>1. Top(stack[p]).todo \in Seq(Uris) /\ Top(stack[p]).todo # << >>
        BY <2>2, <2>7 DEF Insert, Shape, Frames
      <3>2. d \in ListIds
        BY <3>1, HeadTailProperties DEF Target, ListIds
      <3>3. Visit(p, d)
        BY <2>7 DEF Insert
      <3> HIDE DEF d
      <3> QED
        BY <2>7, <2>b, <3>2, <3>3 DEF Insert
    <2>8. CASE Fetch(p)
      <3>1. Len(stack[p]) >= 2
        BY <2>2, <2>8 DEF Fetch, Shape
      <3>2. Top(stack[p]).list \in ListIds
        BY <2>1, <3>1, CalledList DEF Running
      <3>3. PICK served \in SUBSET Offers[Top(stack[p]).list.uri] :
              SetStack(p, SetTop(stack[p], [list  |-> Top(stack[p]).list,
                                            found |-> AnchorsOf(Top(stack[p]).list, served),
                                            todo  |-> Pointers[Top(stack[p]).list.uri]]))
        BY <2>8 DEF Fetch
      <3> DEFINE f == [list  |-> Top(stack[p]).list,
                       found |-> AnchorsOf(Top(stack[p]).list, served),
                       todo  |-> Pointers[Top(stack[p]).list.uri]]
      <3>4. f \in Frames /\ f.list = Top(stack[p]).list
        <4>1. Top(stack[p]).list.uri \in Uris /\ served \subseteq Certs
          BY <3>2, ConstantsAssumption DEF ListIds
        <4> QED
          BY <3>2, <4>1, ConstantsAssumption DEF Frames, Anchors, AnchorsOf
      <3>5. stack'[p] = SetTop(stack[p], f) /\ pc'[p] = "stamp"
        BY <1>2, <2>8, <3>3 DEF SetStack, Fetch, Goto
      <3> HIDE DEF f
      <3>6. /\ Len(stack'[p]) = Len(stack[p]) /\ Top(stack'[p]) = f
            /\ \A i \in 1 .. Len(stack[p]) - 1 : stack'[p][i] = stack[p][i]
        <4>1. ASSUME NEW g \in Frames
              PROVE  /\ Len(SetTop(stack[p], g)) = Len(stack[p]) /\ Top(SetTop(stack[p], g)) = g
                     /\ \A i \in 1 .. Len(stack[p]) - 1 : SetTop(stack[p], g)[i] = stack[p][i]
          BY <2>2, SetTopLemma
        <4> QED
          BY <3>4, <3>5, <4>1
      <3>7. \A i \in 2 .. Len(stack[p]) :
              /\ stack'[p][i].list = stack[p][i].list
              /\ i < Len(stack[p]) \/ stack[p][i].list = Top(stack[p]).list
        BY <2>2, <3>4, <3>6 DEF Top
      <3>8. stack'[p][1] = stack[p][1] /\ Running(p)'
        BY <2>2, <3>1, <3>5, <3>6 DEF Running, Idle
      <3>9. RootKept(p)
        BY <3>8 DEF RootKept
      <3>10. CallsKept(p)
        BY <2>2, <2>3, <2>8, <3>6, <3>7 DEF CallsKept
      <3> QED
        BY <1>1, <1>4, <2>1, <3>8, <3>9, <3>10, RepairKept
    <2>9. CASE Return(p)
      <3>1. /\ 1 \in 1 .. Len(stack[p]) - 1 /\ pc[p] = "next"
            /\ Len(stack[p]) > 1
            /\ \A i \in 2 .. Len(stack[p]) : /\ stack[p][i].list.uri = Head(stack[p][i - 1].todo)
                                             /\ stack[p][i].list \in ListIds
        <4>1. 1 \in 1 .. Len(stack[p]) - 1
          BY <2>2, <2>9, MoreThanOne, Zenon DEF Return, AtRoot
        <4>2. Len(stack[p]) > 1
          BY <2>2, <4>1
        <4> QED
          BY <4>1, <2>1, <2>9, <4>2 DEF Return, Progress, CallsMatch, ShapeInv, Shape, TypeOK
      <3> DEFINE r == Front(stack[p])
      <3>2. /\ r \in Seq(Frames) /\ r # << >>
            /\ Len(r) = Len(stack[p]) - 1 /\ Len(r) \in Nat \ {0}
            /\ \A i \in 1 .. Len(stack[p]) - 1 : r[i] = stack[p][i]
        BY <2>2, <3>1, PopLemma
      <3>3. stack'[p] = EndItem(r, Top(stack[p]).found) /\ pc'[p] = "next"
        BY <1>2, <2>9 DEF Return, SetStack
      <3> HIDE DEF r
      <3>4. Top(r).todo # << >> /\ Top(stack[p]).found \in SUBSET Anchors
        <4>1. Top(r) = stack[p][Len(stack[p]) - 1]
          BY <2>2, <3>1, <3>2 DEF Top
        <4>2. Len(stack[p]) - 1 \in 1 .. Len(stack[p]) - 1
          BY <2>2, <3>1
        <4> QED
          BY <2>2, <4>1, <4>2 DEF Shape, Frames
      <3>5. /\ Len(stack'[p]) = Len(r) /\ Top(stack'[p]).list = Top(r).list
            /\ Top(stack'[p]).todo = Tail(Top(r).todo)
            /\ \A i \in 1 .. Len(r) - 1 : stack'[p][i] = r[i]
        BY <3>2, <3>3, <3>4, EndItemLemma
      <3>6. \A i \in 2 .. Len(stack'[p]) :
              /\ i \in 2 .. Len(stack[p]) /\ i < Len(stack[p])
              /\ stack'[p][i].list = stack[p][i].list
        <4> SUFFICES ASSUME NEW i \in 2 .. Len(r)
                     PROVE  /\ i \in 2 .. Len(stack[p]) /\ i < Len(stack[p])
                            /\ stack'[p][i].list = stack[p][i].list
          BY <3>5
        <4>1. i \in 1 .. Len(stack[p]) - 1 /\ i \in 2 .. Len(stack[p]) /\ i < Len(stack[p])
          BY <2>2, <3>2
        <4>2. stack'[p][i].list = r[i].list
          <5>1. CASE i = Len(r)
            BY <3>5, <5>1 DEF Top
          <5>2. CASE i # Len(r)
            <6>1. i \in 1 .. Len(r) - 1
              BY <3>2, <5>2
            <6> QED
              BY <3>5, <6>1
          <5> QED
            BY <5>1, <5>2
        <4> QED
          BY <3>2, <4>1, <4>2
      <3>7. ASSUME NEW u \in ToSet(stack[p][1].todo), u \notin ToSet(stack'[p][1].todo),
                   NEW d \in ListIds, d.uri = u
            PROVE  Accounted(d)
        <4>1. CASE Len(r) = 1
          <5>1. r[1] = stack[p][1] /\ Top(r) = r[1] /\ Top(stack'[p]) = stack'[p][1]
            <6>1. 1 \in 1 .. Len(stack[p]) - 1 /\ Len(stack'[p]) = 1
              BY <3>1, <3>5, <4>1
            <6> QED
              BY <3>2, <4>1, <6>1 DEF Top
          <5>2. r[1].todo \in Seq(Uris)
            <6>1. Top(r) \in Frames
              BY <3>2, SetTopLemma
            <6> QED
              BY <5>1, <6>1 DEF Frames
          <5>3. u = Head(stack[p][1].todo)
            BY <3>4, <3>5, <3>7, <5>1, <5>2, ItemsLeft
          <5>4. 2 \in 2 .. Len(stack[p])
            BY <2>2, <3>1
          <5>5. stack[p][2].list \in ListIds /\ stack[p][2].list.uri = u
            BY <3>1, <5>3, <5>4
          <5>6. d = stack[p][2].list
            BY <3>7, <5>5 DEF ListIds, OnePod
          <5> QED
            BY <2>3, <3>1, <5>4, <5>6
        <4>2. CASE Len(r) # 1
          <5>1. stack'[p][1] = stack[p][1]
            <6>1. 1 \in 1 .. Len(r) - 1 /\ 1 \in 1 .. Len(stack[p]) - 1
              BY <3>1, <3>2, <4>2, MoreThanOne, Zenon
            <6> QED
              BY <3>2, <3>5, <6>1
          <5> QED
            BY <3>7, <5>1
        <4> QED
          BY <4>1, <4>2
      <3>8. Running(p)'
        BY <3>3 DEF Running, Idle
      <3>9. \A i \in 2 .. Len(stack'[p]) : Accounted(stack[p][i].list)
        BY <2>3, <3>6
      <3>10. RootKept(p)
        BY <3>7 DEF RootKept
      <3>11. CallsKept(p)
        BY <3>6, <3>9 DEF CallsKept
      <3> QED
        BY <1>1, <1>4, <2>1, <3>8, <3>10, <3>11, RepairKept
    <2>10. CASE SaveAnchor(p)
      <3>1. PICK a \in Pending(p) : Settle(p, a)
        BY <2>10 DEF SaveAnchor
      <3> DEFINE f == [Top(stack[p]) EXCEPT !.found = @ \ {a}]
      <3>2. f \in Frames /\ f.todo = Top(stack[p]).todo
        BY <2>2 DEF Frames
      <3>3. stack'[p] = SetTop(stack[p], f)
        BY <1>2, <3>1 DEF Settle, SetStack
      <3> HIDE DEF f
      <3>4. Len(stack[p]) = 1 /\ pc'[p] = "save"
        BY <1>2, <2>2, <2>10 DEF SaveAnchor, Shape
      <3>5. Len(stack'[p]) = 1 /\ stack'[p][1] = f
        <4>1. ASSUME NEW g \in Frames
              PROVE  Len(SetTop(stack[p], g)) = Len(stack[p]) /\ Top(SetTop(stack[p], g)) = g
          BY <2>2, SetTopLemma
        <4> QED
          BY <3>2, <3>3, <3>4, <4>1 DEF Top
      <3>6. stack'[p][1].todo = stack[p][1].todo /\ 2 .. Len(stack'[p]) = {} /\ Running(p)'
        BY <3>2, <3>4, <3>5 DEF Top, Running, Idle
      <3>7. RootKept(p) /\ CallsKept(p)
        BY <3>6 DEF RootKept, CallsKept
      <3> QED
        BY <1>1, <1>4, <2>1, <3>6, <3>7, RepairKept
    <2>11. CASE Ready(p)
      <3>1. stack'[p] = << >> /\ pc[p] = "save" /\ 2 .. Len(<< >>) = {}
        BY <1>2, <2>11 DEF Ready, SetStack
      <3>2. ToSet(stack[p][1].todo) = {}
        BY <2>1, <3>1, NoItemsLeft DEF Progress
      <3>3. \A d \in ListIds : d.uri \in ToSet(ParentLists) => Accounted(d)
        BY <1>1, <2>1, <3>1, <3>2 DEF Repair
      <3>4. \A d \in ListIds : d.uri \in ToSet(ParentLists) => Accounted(d)'
        BY <1>1, <1>4, <3>3, AccountedStays
      <3> QED
        BY <3>1, <3>4 DEF Repair
    <2> QED
      BY <1>4, <2>4, <2>5, <2>6, <2>7, <2>8, <2>9, <2>10, <2>11 DEF Refresh
  <1>5. CASE Stop(p)
    BY <1>1, <1>2, <1>5 DEF Stop
  <1> QED
    BY <1>3, <1>4, <1>5

LEMMA RepairNext ==
  OnePod /\ ShapeInv /\ ProgressInv /\ RepairInv /\ [Next]_vars => RepairInv'
  <1> SUFFICES ASSUME OnePod, ShapeInv, ProgressInv, RepairInv, [Next]_vars, NEW p \in Pods
               PROVE  Repair(p)'
    BY DEF RepairInv
  <1>1. Progress(p) /\ Repair(p) /\ \A q \in Pods : q = p
    BY DEF ProgressInv, RepairInv, OnePod
  <1>2. CASE Launch(p) \/ Refresh(p) \/ Stop(p)
    BY <1>1, <1>2, RepairStep
  <1>3. CASE ClockMoves \/ UNCHANGED vars
    <2>1. UNCHANGED <<anchors, pc, stack, lastSeen, clean>>
      BY <1>3 DEF ClockMoves, vars, stored
    <2>2. \A d : Accounted(d)' <=> Accounted(d)
      BY <2>1 DEF Accounted, AnchorsOf, Kept, FoundIn
    <2> QED
      BY <1>1, <2>1, <2>2 DEF Repair, Running
  <1> QED
    BY <1>1, <1>2, <1>3 DEF Next

\* With a single pod a forced launch in which nothing failed leaves in the database
\* all that its downloads of the parent lists held, whatever crashes and failed
\* writes of earlier launches lost.  With a second pod that need not be so: what
\* that pod downloads meanwhile, into the same document or into a second one of
\* the same uri, and loses in a crash, the launch knows nothing of.
THEOREM ForcedLaunchRepairs ==
  ASSUME OnePod
  PROVE  Spec => []ForcedLaunchRepairsParents
  <1>1. Init => RepairInv
    BY DEF Init, RepairInv, Repair
  <1>2. ShapeInv /\ RepairInv => ForcedLaunchRepairsParents
    <2> SUFFICES ASSUME ShapeInv, RepairInv, NEW p \in Pods, InProduction, pc[p] = "ready",
                        clean[p], NEW d \in lists, d.uri \in ToSet(ParentLists)
                 PROVE  SavedAsSeen(d)
      BY DEF ForcedLaunchRepairsParents
    <2>1. Accounted(d)
      BY DEF RepairInv, Repair, Running, Idle, ShapeInv, TypeOK
    <2>2. \A q \in Pods : FoundIn(stack[q]) = {}
      BY FoundEmpty DEF OnePod, ShapeInv, Shape, Idle
    <2> QED
      BY <2>1, <2>2 DEF Accounted, SavedAsSeen, Kept
  <1>3. Init => ProgressInv
    BY DEF Init, ProgressInv, Progress
  <1> QED
    BY <1>1, <1>2, <1>3, RepairNext, ProgressNext, ShapeInvariant, PTL DEF Spec

=============================================================================
