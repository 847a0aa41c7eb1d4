------------------------- MODULE ListRefreshProofs -------------------------
(***************************************************************************)
(* Proofs about ListRefresh for every number of pods, every pointer graph  *)
(* between the lists and every set of certificates.                        *)
(***************************************************************************)
EXTENDS ListRefresh, SequenceTheorems, TLAPS

-----------------------------------------------------------------------------
(* Lemmas about the stack of frames *)

\* SetTop replaces the last element and nothing else.
LEMMA SetTopLemma ==
  ASSUME NEW s \in Seq(Frames), s # << >>, NEW f \in Frames
  PROVE  /\ SetTop(s, f) \in Seq(Frames)
         /\ Len(SetTop(s, f)) = Len(s)
         /\ Len(s) \in Nat \ {0}
         /\ Top(SetTop(s, f)) = f
         /\ \A i \in 1 .. Len(s) - 1 : SetTop(s, f)[i] = s[i]
         /\ SetTop(s, f) # << >>
         /\ Top(s) \in Frames
  <1>1. Len(s) \in 1 .. Len(s) /\ Len(s) \in Nat \ {0}
    BY EmptySeq, LenProperties
  <1>2. /\ SetTop(s, f) \in Seq(Frames)
        /\ Len(SetTop(s, f)) = Len(s)
        /\ \A i \in 1 .. Len(s) : SetTop(s, f)[i] = IF i = Len(s) THEN f ELSE s[i]
    BY <1>1, ExceptSeq DEF SetTop
  <1>3. s[Len(s)] \in Frames
    BY <1>1, ElementOfSeq
  <1> QED
    BY <1>1, <1>2, <1>3, EmptySeq DEF Top

\* Append pushes a frame and keeps the others.
LEMMA PushLemma ==
  ASSUME NEW s \in Seq(Frames), NEW f \in Frames
  PROVE  /\ Append(s, f) \in Seq(Frames)
         /\ Len(Append(s, f)) = Len(s) + 1
         /\ Len(s) \in Nat
         /\ Top(Append(s, f)) = f
         /\ \A i \in 1 .. Len(s) : Append(s, f)[i] = s[i]
         /\ Append(s, f) # << >>
  BY AppendProperties, LenProperties, EmptySeq DEF Top

\* Front pops the top frame.
LEMMA PopLemma ==
  ASSUME NEW s \in Seq(Frames), Len(s) > 1
  PROVE  /\ Front(s) \in Seq(Frames)
         /\ Len(Front(s)) = Len(s) - 1
         /\ Len(s) \in Nat
         /\ \A i \in 1 .. Len(s) - 1 : Front(s)[i] = s[i]
         /\ Front(s) # << >>
  <1>1. Len(s) \in Nat
    BY LenProperties
  <1>2. /\ SubSeq(s, 1, Len(s) - 1) \in Seq(Frames)
        /\ Len(SubSeq(s, 1, Len(s) - 1)) = Len(s) - 1
        /\ \A i \in 1 .. Len(s) - 1 : SubSeq(s, 1, Len(s) - 1)[i] = s[i]
    BY <1>1, SubSeqProperties
  <1>3. Front(s) = SubSeq(s, 1, Len(s) - 1)
    BY DEF Front
  <1>4. Len(SubSeq(s, 1, Len(s) - 1)) >= 1
    BY <1>1, <1>2
  <1>5. SubSeq(s, 1, Len(s) - 1) # << >>
    <2>1. ASSUME NEW t \in Seq(Frames), Len(t) >= 1 PROVE t # << >>
      BY <2>1
    <2> QED
      BY <1>2, <1>4, <2>1
  <1> QED
    BY <1>1, <1>2, <1>3, <1>5

\* EndItem yields a stack of the same height whose top frame is the old one
\* with one item less to do.
LEMMA EndItemLemma ==
  ASSUME NEW s \in Seq(Frames), s # << >>, Top(s).todo # << >>,
         NEW new \in SUBSET Anchors
  PROVE  /\ EndItem(s, new) \in Seq(Frames)
         /\ EndItem(s, new) # << >>
         /\ Len(EndItem(s, new)) = Len(s)
         /\ Len(s) \in Nat \ {0}
         /\ Top(EndItem(s, new)).list = Top(s).list
         /\ Top(EndItem(s, new)).found = Top(s).found \cup new
         /\ Top(EndItem(s, new)).todo = Tail(Top(s).todo)
         /\ \A i \in 1 .. Len(s) - 1 : EndItem(s, new)[i] = s[i]
  <1> DEFINE f == [Top(s) EXCEPT !.found = @ \cup new, !.todo = Tail(@)]
  <1>1. Top(s) \in Frames
    BY SetTopLemma
  <1>2. Tail(Top(s).todo) \in Seq(Uris)
    BY <1>1, HeadTailProperties DEF Frames
  <1>3. /\ f \in Frames
        /\ f.list = Top(s).list
        /\ f.found = Top(s).found \cup new
        /\ f.todo = Tail(Top(s).todo)
    BY <1>1, <1>2 DEF Frames
  <1>4. EndItem(s, new) = SetTop(s, f)
    BY DEF EndItem
  <1> HIDE DEF f
  <1>5. ASSUME NEW g \in Frames
        PROVE  /\ SetTop(s, g) \in Seq(Frames)
               /\ Len(SetTop(s, g)) = Len(s)
               /\ Len(s) \in Nat \ {0}
               /\ Top(SetTop(s, g)) = g
               /\ \A i \in 1 .. Len(s) - 1 : SetTop(s, g)[i] = s[i]
               /\ SetTop(s, g) # << >>
    BY SetTopLemma
  <1> QED
    BY <1>3, <1>4, <1>5

-----------------------------------------------------------------------------
(* Type correctness, with the shape of the stack at each point of a launch *)

Shape(p) ==
  /\ pc[p] \in Idle => stack[p] = << >>
  /\ pc[p] \notin Idle => stack[p] # << >>
  /\ \A i \in 1 .. Len(stack[p]) - 1 : stack[p][i].todo # << >>
  /\ \A i \in 2 .. Len(stack[p]) : stack[p][i].list \in lists
  /\ pc[p] \in {"find", "insert"} => Top(stack[p]).todo # << >>
  /\ pc[p] \in {"fetch", "stamp"} => Len(stack[p]) >= 2
  /\ pc[p] = "fetch" => Top(stack[p]).found = {} /\ Top(stack[p]).todo = << >>
  /\ pc[p] = "save" => Len(stack[p]) = 1

ShapeInv == TypeOK /\ \A p \in Pods : Shape(p)

\* A step of one pod keeps the shape of the others: documents only appear.
LEMMA OtherPods ==
  ASSUME NEW p \in Pods, ShapeInv, TypeOK', lists \subseteq lists', Shape(p)',
         \A q \in Pods \ {p} : pc'[q] = pc[q] /\ stack'[q] = stack[q]
  PROVE  ShapeInv'
  <1>1. ASSUME NEW q \in Pods \ {p} PROVE Shape(q)'
    <2>1. Shape(q) /\ pc'[q] = pc[q] /\ stack'[q] = stack[q]
      BY DEF ShapeInv
    <2> QED
      BY <2>1 DEF Shape
  <1> QED
    BY <1>1 DEF ShapeInv

\* What ShapeInv says of the pod that moves.
LEMMA ActivePod ==
  ASSUME NEW p \in Pods, ShapeInv, pc[p] \notin Idle
  PROVE  /\ stack[p] \in Seq(Frames)
         /\ stack[p] # << >>
         /\ Len(stack[p]) \in Nat \ {0}
         /\ Top(stack[p]) \in Frames
         /\ Top(stack[p]).todo \in Seq(Uris)
         /\ Shape(p)
  <1>1. stack[p] \in Seq(Frames) /\ Shape(p) /\ stack[p] # << >>
    BY DEF ShapeInv, TypeOK, Shape
  <1>2. Len(stack[p]) \in Nat \ {0} /\ Top(stack[p]) \in Frames
    BY <1>1, SetTopLemma
  <1> QED
    BY <1>1, <1>2 DEF Frames

\* The end of a loop iteration keeps the shape.
LEMMA EndItemShape ==
  ASSUME NEW p \in Pods, Shape(p), stack[p] \in Seq(Frames), stack[p] # << >>,
         Top(stack[p]).todo # << >>, lists \subseteq lists',
         NEW new \in SUBSET Anchors,
         stack'[p] = EndItem(stack[p], new), pc'[p] = "next"
  PROVE  Shape(p)'
  <1>1. /\ stack'[p] # << >>
        /\ Len(stack'[p]) = Len(stack[p])
        /\ Len(stack[p]) \in Nat \ {0}
        /\ Top(stack'[p]).list = Top(stack[p]).list
        /\ \A i \in 1 .. Len(stack[p]) - 1 : stack'[p][i] = stack[p][i]
    BY EndItemLemma
  <1>2. \A i \in 1 .. Len(stack'[p]) - 1 : stack'[p][i].todo # << >>
    BY <1>1 DEF Shape
  <1>3. \A i \in 2 .. Len(stack'[p]) : stack'[p][i].list \in lists'
    BY <1>1 DEF Shape, Top
  <1> QED
    BY <1>1, <1>2, <1>3 DEF Shape, Idle

\* fetchTrustAnchors keeps the shape, whether it calls the parser or not.
LEMMA VisitShape ==
  ASSUME NEW p \in Pods, ShapeInv, NEW d \in lists', Visit(p, d),
         pc[p] \in {"find", "insert"}, lists \subseteq lists', lists' \subseteq ListIds
  PROVE  /\ Shape(p)'
         /\ pc' \in [Pods -> Idle \cup {"next", "find", "insert", "fetch", "stamp", "save"}]
         /\ stack' \in [Pods -> Seq(Frames)]
         /\ \A q \in Pods \ {p} : pc'[q] = pc[q] /\ stack'[q] = stack[q]
  <1>1. /\ stack[p] \in Seq(Frames) /\ stack[p] # << >>
        /\ Shape(p) /\ Top(stack[p]).todo # << >>
        /\ Len(stack[p]) \in Nat \ {0}
    BY ActivePod DEF Shape, Idle
  <1>2. CASE Wanted(p, d)
    <2> DEFINE f == [list |-> d, found |-> {}, todo |-> << >>]
    <2>1. f \in Frames /\ f.list = d /\ f.found = {} /\ f.todo = << >>
      BY EmptySeq DEF Frames
    <2>2. stack' = [stack EXCEPT ![p] = Append(stack[p], f)] /\ pc' = [pc EXCEPT ![p] = "fetch"]
      BY <1>2 DEF Visit, SetStack, Goto
    <2> HIDE DEF f
    <2>3. ASSUME NEW g \in Frames
          PROVE  /\ Append(stack[p], g) \in Seq(Frames)
                 /\ Len(Append(stack[p], g)) = Len(stack[p]) + 1
                 /\ Top(Append(stack[p], g)) = g
                 /\ \A i \in 1 .. Len(stack[p]) : Append(stack[p], g)[i] = stack[p][i]
                 /\ Append(stack[p], g) # << >>
      BY <1>1, PushLemma
    <2>4. /\ stack'[p] \in Seq(Frames)
          /\ Len(stack'[p]) = Len(stack[p]) + 1
          /\ Top(stack'[p]) = f
          /\ \A i \in 1 .. Len(stack[p]) : stack'[p][i] = stack[p][i]
          /\ stack'[p] # << >>
          /\ pc'[p] = "fetch"
          /\ stack' \in [Pods -> Seq(Frames)]
      BY <2>1, <2>2, <2>3 DEF ShapeInv, TypeOK
    <2>5. Shape(p)'
      <3>1. \A i \in 1 .. Len(stack'[p]) - 1 : stack'[p][i].todo # << >>
        BY <1>1, <2>4 DEF Shape, Top
      <3>2. \A i \in 2 .. Len(stack'[p]) : stack'[p][i].list \in lists'
        BY <1>1, <2>1, <2>4 DEF Shape, Top
      <3> QED
        BY <1>1, <2>1, <2>4, <3>1, <3>2 DEF Shape, Idle
    <2> QED
      BY <2>2, <2>4, <2>5 DEF ShapeInv, TypeOK, Idle
  <1>3. CASE ~Wanted(p, d)
    <2>1. stack' = [stack EXCEPT ![p] = EndItem(stack[p], {})] /\ pc' = [pc EXCEPT ![p] = "next"]
      BY <1>3 DEF Visit, SetStack, Goto
    <2>2. /\ stack'[p] = EndItem(stack[p], {}) /\ pc'[p] = "next"
          /\ stack' \in [Pods -> Seq(Frames)]
      BY <1>1, <2>1, EndItemLemma DEF ShapeInv, TypeOK
    <2>3. Shape(p)'
      <3>1. {} \in SUBSET Anchors
        OBVIOUS
      <3> QED
        BY <1>1, <2>2, <3>1, EndItemShape, Zenon
    <2> QED
      BY <2>1, <2>2, <2>3 DEF ShapeInv, TypeOK, Idle
  <1> QED
    BY <1>2, <1>3

\* A step that leaves the stack and the lists alone.
LEMMA GotoShape ==
  ASSUME NEW p \in Pods, ShapeInv, pc[p] \notin Idle, UNCHANGED stack, UNCHANGED lists,
         pc'[p] \in {"next", "find", "insert", "stamp", "save"},
         pc'[p] \in {"find", "insert"} => Top(stack[p]).todo # << >>,
         pc'[p] = "stamp" => Len(stack[p]) >= 2,
         pc'[p] = "save" => Len(stack[p]) = 1
  PROVE  Shape(p)'
  BY DEF ShapeInv, Shape, Idle

\* A step that replaces the top frame of a call by one with the same list.
LEMMA SetTopShape ==
  ASSUME NEW p \in Pods, ShapeInv, pc[p] \notin Idle, UNCHANGED lists,
         NEW f \in Frames, f.list = Top(stack[p]).list,
         stack'[p] = SetTop(stack[p], f),
         pc'[p] \in {"next", "stamp", "save"},
         pc'[p] = "stamp" => Len(stack[p]) >= 2,
         pc'[p] = "save" => Len(stack[p]) = 1
  PROVE  Shape(p)'
  <1>1. Shape(p) /\ stack[p] \in Seq(Frames) /\ stack[p] # << >>
    BY ActivePod
  <1>2. /\ stack'[p] # << >>
        /\ Len(stack'[p]) = Len(stack[p])
        /\ Len(stack[p]) \in Nat \ {0}
        /\ Top(stack'[p]) = f
        /\ \A i \in 1 .. Len(stack[p]) - 1 : stack'[p][i] = stack[p][i]
    <2>1. PICK s \in Seq(Frames) : s = stack[p] /\ s # << >>
      BY <1>1
    <2>2. /\ SetTop(s, f) # << >> /\ Len(SetTop(s, f)) = Len(s) /\ Len(s) \in Nat \ {0}
          /\ Top(SetTop(s, f)) = f
          /\ \A i \in 1 .. Len(s) - 1 : SetTop(s, f)[i] = s[i]
      BY <2>1, SetTopLemma
    <2> QED
      BY <2>1, <2>2
  <1>3. \A i \in 1 .. Len(stack'[p]) - 1 : stack'[p][i].todo # << >>
    BY <1>1, <1>2 DEF Shape
  <1>4. \A i \in 2 .. Len(stack'[p]) : stack'[p][i].list \in lists'
    BY <1>1, <1>2 DEF Shape, Top
  <1> QED
    BY <1>1, <1>2, <1>3, <1>4 DEF Shape, Idle

\* The list of a call of getTrustAnchors is a stored document.
LEMMA CalledList ==
  ASSUME NEW p \in Pods, ShapeInv, Len(stack[p]) >= 2, pc[p] \notin Idle
  PROVE  Top(stack[p]).list \in ListIds /\ Top(stack[p]).list \in lists
  <1>1. Shape(p) /\ Len(stack[p]) \in Nat \ {0}
    BY ActivePod
  <1>2. Top(stack[p]).list \in lists
    BY <1>1 DEF Shape, Top
  <1> QED
    BY <1>2 DEF ShapeInv, TypeOK

LEMMA ShapeInit == Init => ShapeInv
  <1> SUFFICES ASSUME Init PROVE ShapeInv
    OBVIOUS
  <1>1. TypeOK
    BY ConstantsAssumption, EmptySeq DEF Init, TypeOK, Dates, Idle
  <1>2. ASSUME NEW p \in Pods PROVE Shape(p)
    BY EmptySeq DEF Init, Shape, Idle
  <1> QED
    BY <1>1, <1>2 DEF ShapeInv

LEMMA ShapeNext == ShapeInv /\ [Next]_vars => ShapeInv'
  <1> SUFFICES ASSUME ShapeInv, [Next]_vars PROVE ShapeInv'
    OBVIOUS
  <1> USE DEF stored
  <1>1. ASSUME NEW p \in Pods, Launch(p) PROVE ShapeInv'
    <2> DEFINE f == [list |-> NoList, found |-> {}, todo |-> ParentLists]
    <2>1. f \in Frames /\ f.todo = ParentLists
      BY ConstantsAssumption DEF Frames
    <2>2. stack' = [stack EXCEPT ![p] = <<f>>] /\ pc' = [pc EXCEPT ![p] = "next"]
      BY <1>1 DEF Launch, SetStack, Goto
    <2> HIDE DEF f
    <2>3. <<f>> \in Seq(Frames) /\ Len(<<f>>) = 1 /\ <<f>> # << >>
      BY <2>1
    <2>4. TypeOK'
      BY <1>1, <2>2, <2>3 DEF ShapeInv, TypeOK, Launch, Idle
    <2>5. Shape(p)'
      BY <2>2, <2>3 DEF ShapeInv, TypeOK, Shape, Idle
    <2> QED
      BY <1>1, <2>2, <2>4, <2>5, OtherPods DEF Launch, ShapeInv, TypeOK
  <1>2. ASSUME NEW p \in Pods, TakeItem(p) PROVE ShapeInv'
    <2>1. TypeOK'
      BY <1>2 DEF ShapeInv, TypeOK, TakeItem, Goto
    <2>2. Shape(p)'
      BY <1>2, GotoShape DEF ShapeInv, TypeOK, TakeItem, Goto, Idle
    <2> QED
      BY <1>2, <2>1, <2>2, OtherPods DEF TakeItem, Goto, ShapeInv, TypeOK
  <1>3. ASSUME NEW p \in Pods, TakeItemFails(p) PROVE ShapeInv'
    <2>1. /\ stack[p] \in Seq(Frames) /\ stack[p] # << >>
          /\ Shape(p) /\ Top(stack[p]).todo # << >>
      BY <1>3, ActivePod DEF TakeItemFails, Idle
    <2>2. /\ stack' = [stack EXCEPT ![p] = EndItem(stack[p], {})]
          /\ EndItem(stack[p], {}) \in Seq(Frames)
          /\ stack'[p] = EndItem(stack[p], {}) /\ pc'[p] = "next"
      BY <1>3, <2>1, EndItemLemma DEF TakeItemFails, SetStack, ShapeInv, TypeOK
    <2>3. TypeOK'
      BY <1>3, <2>2 DEF ShapeInv, TypeOK, TakeItemFails, Failure
    <2>4. {} \in SUBSET Anchors /\ lists \subseteq lists'
      BY <1>3 DEF TakeItemFails
    <2>5. Shape(p)'
      BY <2>1, <2>2, <2>4, EndItemShape, Zenon
    <2> QED
      BY <1>3, <2>2, <2>3, <2>5, OtherPods DEF TakeItemFails, ShapeInv, TypeOK
  <1>4. ASSUME NEW p \in Pods, Find(p) PROVE ShapeInv'
    <2>1. CASE \E d \in lists : Visit(p, d)
      <3>1. PICK d \in lists : Visit(p, d)
        BY <2>1
      <3>2. /\ d \in lists' /\ lists \subseteq lists' /\ lists' \subseteq ListIds
            /\ pc[p] \in {"find", "insert"}
        BY <1>4 DEF Find, ShapeInv, TypeOK
      <3>3. /\ Shape(p)'
            /\ pc' \in [Pods -> Idle \cup {"next", "find", "insert", "fetch", "stamp", "save"}]
            /\ stack' \in [Pods -> Seq(Frames)]
            /\ \A q \in Pods \ {p} : pc'[q] = pc[q] /\ stack'[q] = stack[q]
        BY <3>1, <3>2, VisitShape
      <3>4. TypeOK'
        BY <1>4, <3>3 DEF Find, ShapeInv, TypeOK
      <3> QED
        BY <3>2, <3>3, <3>4, OtherPods
    <2>2. CASE Goto(p, "insert") /\ UNCHANGED stack
      <3>1. TypeOK'
        BY <1>4, <2>2 DEF ShapeInv, TypeOK, Find, Goto
      <3>2. Top(stack[p]).todo # << >> /\ pc'[p] = "insert" /\ pc[p] = "find"
        BY <1>4, <2>2 DEF Find, Goto, ShapeInv, Shape, TypeOK
      <3>3. Shape(p)'
        BY <1>4, <2>2, <3>2, GotoShape DEF Find, Idle
      <3> QED
        BY <1>4, <2>2, <3>1, <3>3, OtherPods DEF Find, Goto, ShapeInv, TypeOK
    <2> QED
      BY <1>4, <2>1, <2>2 DEF Find
  <1>5. ASSUME NEW p \in Pods, Insert(p) PROVE ShapeInv'
    <2> DEFINE d == [uri |-> Target(p), by |-> p]
    <2>1. Target(p) \in Uris
      <3>1. Top(stack[p]).todo \in Seq(Uris) /\ Top(stack[p]).todo # << >>
        BY <1>5, ActivePod DEF Insert, Idle, ShapeInv, Shape
      <3> QED
        BY <3>1, HeadTailProperties DEF Target
    <2>2. d \in ListIds
      BY <2>1 DEF ListIds
    <2>3. /\ Visit(p, d) /\ d \in lists' /\ lists \subseteq lists' /\ lists' \subseteq ListIds
          /\ pc[p] \in {"find", "insert"}
      BY <1>5, <2>2 DEF Insert, ShapeInv, TypeOK
    <2> HIDE DEF d
    <2>4. /\ Shape(p)'
          /\ pc' \in [Pods -> Idle \cup {"next", "find", "insert", "fetch", "stamp", "save"}]
          /\ stack' \in [Pods -> Seq(Frames)]
          /\ \A q \in Pods \ {p} : pc'[q] = pc[q] /\ stack'[q] = stack[q]
      BY <2>3, VisitShape
    <2>5. TypeOK'
      BY <1>5, <2>3, <2>4 DEF Insert, ShapeInv, TypeOK
    <2> QED
      BY <2>3, <2>4, <2>5, OtherPods
  <1>6. ASSUME NEW p \in Pods, FindFails(p) PROVE ShapeInv'
    <2>1. CASE AtRoot(p) /\ Goto(p, "save") /\ UNCHANGED stack
      <3>1. TypeOK'
        BY <1>6, <2>1 DEF ShapeInv, TypeOK, FindFails, Failure, Goto
      <3>2. Shape(p)'
        BY <1>6, <2>1, GotoShape DEF ShapeInv, TypeOK, FindFails, Goto, Idle, AtRoot
      <3> QED
        BY <1>6, <2>1, <3>1, <3>2, OtherPods DEF FindFails, Goto, ShapeInv, TypeOK
    <2>2. CASE Goto(p, "next") /\ SetStack(p, EndItem(stack[p], {}))
      <3>1. /\ stack[p] \in Seq(Frames) /\ stack[p] # << >>
            /\ Shape(p) /\ Top(stack[p]).todo # << >>
        BY <1>6, ActivePod DEF FindFails, Idle, ShapeInv, Shape
      <3>2. /\ stack' = [stack EXCEPT ![p] = EndItem(stack[p], {})]
            /\ EndItem(stack[p], {}) \in Seq(Frames)
            /\ stack'[p] = EndItem(stack[p], {}) /\ pc'[p] = "next"
        BY <2>2, <3>1, EndItemLemma DEF Goto, SetStack, ShapeInv, TypeOK
      <3>3. TypeOK'
        BY <1>6, <2>2, <3>2 DEF ShapeInv, TypeOK, FindFails, Failure, Goto
      <3>4. {} \in SUBSET Anchors /\ lists \subseteq lists'
        BY <1>6 DEF FindFails
      <3>5. Shape(p)'
        BY <3>1, <3>2, <3>4, EndItemShape, Zenon
      <3> QED
        BY <1>6, <2>2, <3>2, <3>3, <3>5, OtherPods DEF FindFails, Goto, ShapeInv, TypeOK
    <2> QED
      BY <1>6, <2>1, <2>2 DEF FindFails
  <1>7. ASSUME NEW p \in Pods, Fetch(p) PROVE ShapeInv'
    <2> DEFINE d == Top(stack[p]).list
    <2>1. /\ stack[p] \in Seq(Frames) /\ stack[p] # << >>
          /\ Len(stack[p]) >= 2 /\ pc[p] \notin Idle
      BY <1>7, ActivePod DEF Fetch, Idle, Shape
    <2>2. d \in ListIds
      BY <2>1, CalledList
    <2>3. PICK served \in SUBSET Offers[d.uri] :
            /\ lastSeen' = [lastSeen EXCEPT ![d] = served]
            /\ SetStack(p, SetTop(stack[p], [list  |-> d,
                                             found |-> AnchorsOf(d, served),
                                             todo  |-> Pointers[d.uri]]))
      BY <1>7 DEF Fetch
    <2> DEFINE f == [list |-> d, found |-> AnchorsOf(d, served), todo |-> Pointers[d.uri]]
    <2>4. d.uri \in Uris /\ served \subseteq Certs
      BY <2>2, ConstantsAssumption DEF ListIds
    <2>5. f \in Frames /\ f.list = Top(stack[p]).list
      BY <2>2, <2>4, ConstantsAssumption DEF Frames, Anchors, AnchorsOf
    <2>6. stack' = [stack EXCEPT ![p] = SetTop(stack[p], f)] /\ pc' = [pc EXCEPT ![p] = "stamp"]
      BY <1>7, <2>3 DEF Fetch, SetStack, Goto
    <2> HIDE DEF f
    <2>7. SetTop(stack[p], f) \in Seq(Frames)
      BY <2>1, <2>5, SetTopLemma
    <2>8. TypeOK'
      BY <1>7, <2>2, <2>3, <2>4, <2>6, <2>7 DEF ShapeInv, TypeOK, Fetch
    <2>9. stack'[p] = SetTop(stack[p], f) /\ pc'[p] = "stamp" /\ UNCHANGED lists
      BY <1>7, <2>6 DEF ShapeInv, TypeOK, Fetch
    <2>10. Shape(p)'
      BY <2>1, <2>5, <2>9, SetTopShape
    <2> QED
      BY <1>7, <2>6, <2>8, <2>10, OtherPods DEF Fetch, ShapeInv, TypeOK
  <1>8. ASSUME NEW p \in Pods, FetchFails(p) PROVE ShapeInv'
    <2>1. TypeOK'
      BY <1>8 DEF ShapeInv, TypeOK, FetchFails, Failure, Goto
    <2>2. Len(stack[p]) >= 2
      BY <1>8 DEF ShapeInv, Shape, FetchFails
    <2>3. Shape(p)'
      BY <1>8, <2>2, GotoShape DEF ShapeInv, TypeOK, FetchFails, Goto, Idle
    <2> QED
      BY <1>8, <2>1, <2>3, OtherPods DEF FetchFails, Goto, ShapeInv, TypeOK
  <1>9. ASSUME NEW p \in Pods, Stamp(p) PROVE ShapeInv'
    <2>1. Len(stack[p]) >= 2 /\ pc[p] \notin Idle
      BY <1>9 DEF ShapeInv, Shape, Stamp, Idle
    <2>2. TypeOK'
      BY <1>9, <2>1, CalledList DEF ShapeInv, TypeOK, Stamp, Goto
    <2>3. Shape(p)'
      BY <1>9, GotoShape DEF ShapeInv, TypeOK, Stamp, Goto, Idle
    <2> QED
      BY <1>9, <2>2, <2>3, OtherPods DEF Stamp, Goto, ShapeInv, TypeOK
  <1>10. ASSUME NEW p \in Pods, StampFails(p) PROVE ShapeInv'
    <2>1. /\ stack[p] \in Seq(Frames) /\ stack[p] # << >> /\ pc[p] \notin Idle
          /\ Top(stack[p]) \in Frames /\ Shape(p) /\ Len(stack[p]) \in Nat \ {0}
      BY <1>10, ActivePod DEF StampFails, Idle
    <2>2. CASE /\ SetStack(p, SetTop(stack[p], [Top(stack[p]) EXCEPT !.todo = << >>]))
               /\ Goto(p, "next")
      <3> DEFINE f == [Top(stack[p]) EXCEPT !.todo = << >>]
      <3>1. f \in Frames /\ f.list = Top(stack[p]).list
        BY <2>1, EmptySeq DEF Frames
      <3>2. stack' = [stack EXCEPT ![p] = SetTop(stack[p], f)] /\ pc' = [pc EXCEPT ![p] = "next"]
        BY <2>2 DEF SetStack, Goto
      <3> HIDE DEF f
      <3>3. SetTop(stack[p], f) \in Seq(Frames)
        BY <2>1, <3>1, SetTopLemma
      <3>4. TypeOK'
        BY <1>10, <3>2, <3>3 DEF ShapeInv, TypeOK, StampFails, Failure
      <3>5. stack'[p] = SetTop(stack[p], f) /\ pc'[p] = "next" /\ UNCHANGED lists
        BY <1>10, <3>2 DEF ShapeInv, TypeOK, StampFails
      <3>6. Shape(p)'
        BY <2>1, <3>1, <3>5, SetTopShape
      <3> QED
        BY <1>10, <3>2, <3>4, <3>6, OtherPods DEF StampFails, ShapeInv, TypeOK
    <2>3. CASE SetStack(p, <<Head(stack[p])>>) /\ Goto(p, "save")
      <3> DEFINE f == Head(stack[p])
      <3>1. f \in Frames
        BY <2>1, HeadTailProperties
      <3>2. stack' = [stack EXCEPT ![p] = <<f>>] /\ pc' = [pc EXCEPT ![p] = "save"]
        BY <2>3 DEF SetStack, Goto
      <3> HIDE DEF f
      <3>3. <<f>> \in Seq(Frames) /\ Len(<<f>>) = 1 /\ <<f>> # << >>
        BY <3>1
      <3>4. TypeOK'
        BY <1>10, <3>2, <3>3 DEF ShapeInv, TypeOK, StampFails, Failure
      <3>5. Shape(p)'
        BY <3>2, <3>3 DEF ShapeInv, TypeOK, Shape, Idle
      <3> QED
        BY <1>10, <3>2, <3>4, <3>5, OtherPods DEF StampFails, ShapeInv, TypeOK
    <2> QED
      BY <1>10, <2>2, <2>3 DEF StampFails
  <1>11. ASSUME NEW p \in Pods, Return(p) PROVE ShapeInv'
    <2> DEFINE s == stack[p]
               r == Front(s)
               t == EndItem(r, Top(s).found)
    <2>1. /\ s \in Seq(Frames) /\ s # << >> /\ pc[p] \notin Idle
          /\ Top(s) \in Frames /\ Shape(p) /\ Len(s) \in Nat \ {0}
      BY <1>11, ActivePod DEF Return, Idle
    <2>2. Len(s) >= 2
      <3>1. \A n \in Nat \ {0} : n = 1 \/ n >= 2
        OBVIOUS
      <3> QED
        BY <1>11, <2>1, <3>1, Zenon DEF Return, AtRoot
    <2>3. /\ r \in Seq(Frames)
          /\ Len(r) = Len(s) - 1
          /\ \A i \in 1 .. Len(s) - 1 : r[i] = s[i]
          /\ r # << >>
      <3>1. PICK u \in Seq(Frames) : u = s /\ Len(u) > 1
        BY <2>1, <2>2
      <3>2. /\ Front(u) \in Seq(Frames) /\ Len(Front(u)) = Len(u) - 1 /\ Front(u) # << >>
            /\ \A i \in 1 .. Len(u) - 1 : Front(u)[i] = u[i]
        BY <3>1, PopLemma
      <3> QED
        BY <3>1, <3>2
    <2>4. Top(r).todo # << >>
      <3>1. Len(s) \in Nat /\ Len(s) - 1 \in 1 .. Len(s) - 1
        BY <2>1, <2>2, <2>3, EmptySeq, LenProperties
      <3>2. Top(r) = s[Len(s) - 1]
        BY <2>3, <3>1 DEF Top
      <3>3. s[Len(s) - 1].todo # << >>
        BY <2>1, <3>1 DEF Shape
      <3> QED
        BY <3>2, <3>3
    <2>5. Top(s).found \in SUBSET Anchors
      BY <2>1 DEF Frames
    <2>6. /\ t \in Seq(Frames) /\ t # << >>
          /\ Len(t) = Len(r)
          /\ Top(t).list = Top(r).list
          /\ \A i \in 1 .. Len(r) - 1 : t[i] = r[i]
      BY <2>3, <2>4, <2>5, EndItemLemma
    <2>7. stack' = [stack EXCEPT ![p] = t] /\ pc' = pc /\ pc[p] = "next"
      BY <1>11 DEF Return, SetStack
    <2>8. /\ \A i \in 1 .. Len(s) - 1 : s[i].todo # << >>
          /\ \A i \in 2 .. Len(s) : s[i].list \in lists
      BY <2>1 DEF Shape
    <2> HIDE DEF s, r, t
    <2>9. TypeOK' /\ stack'[p] = t
      BY <1>11, <2>6, <2>7 DEF ShapeInv, TypeOK, Return
    <2>10. \A i \in 1 .. Len(t) - 1 : t[i].todo # << >>
      <3> SUFFICES ASSUME NEW i \in 1 .. Len(t) - 1 PROVE t[i].todo # << >>
        OBVIOUS
      <3>1. i \in 1 .. Len(r) - 1 /\ i \in 1 .. Len(s) - 1
        BY <2>1, <2>3, <2>6
      <3>2. t[i] = r[i] /\ r[i] = s[i]
        BY <3>1, <2>3, <2>6
      <3> QED
        BY <3>1, <3>2, <2>8
    <2>11. \A i \in 2 .. Len(t) : t[i].list \in lists
      BY <2>1, <2>2, <2>3, <2>6, <2>8 DEF Top
    <2>12. Shape(p)'
      BY <1>11, <2>6, <2>7, <2>9, <2>10, <2>11 DEF Shape, Idle, Return
    <2> QED
      BY <1>11, <2>7, <2>9, <2>12, OtherPods DEF Return, ShapeInv, TypeOK
  <1>12. ASSUME NEW p \in Pods, BeginSave(p) PROVE ShapeInv'
    <2>1. TypeOK'
      BY <1>12 DEF ShapeInv, TypeOK, BeginSave, Goto
    <2>2. Shape(p)'
      BY <1>12, GotoShape DEF ShapeInv, TypeOK, BeginSave, Goto, Idle, AtRoot
    <2> QED
      BY <1>12, <2>1, <2>2, OtherPods DEF BeginSave, Goto, ShapeInv, TypeOK
  <1>13. ASSUME NEW p \in Pods, NEW a \in Pending(p), Settle(p, a),
                anchors' \in SUBSET Anchors, clean' \in [Pods -> BOOLEAN],
                pc[p] = "save", UNCHANGED <<clock, lists, lastFetchDate, pc, lastSeen>>
         PROVE  ShapeInv'
    <2> DEFINE f == [Top(stack[p]) EXCEPT !.found = @ \ {a}]
    <2>1. /\ stack[p] \in Seq(Frames) /\ stack[p] # << >> /\ pc[p] \notin Idle
          /\ Top(stack[p]) \in Frames /\ Shape(p) /\ Len(stack[p]) = 1
      BY <1>13, ActivePod DEF Idle, Shape
    <2>2. f \in Frames /\ f.list = Top(stack[p]).list
      BY <2>1 DEF Frames
    <2>3. stack' = [stack EXCEPT ![p] = SetTop(stack[p], f)]
      BY <1>13 DEF Settle, SetStack
    <2> HIDE DEF f
    <2>4. SetTop(stack[p], f) \in Seq(Frames)
      BY <2>1, <2>2, SetTopLemma
    <2>5. TypeOK'
      BY <1>13, <2>3, <2>4 DEF ShapeInv, TypeOK
    <2>6. stack'[p] = SetTop(stack[p], f)
      BY <2>3 DEF ShapeInv, TypeOK
    <2>7. Shape(p)'
      BY <1>13, <2>1, <2>2, <2>6, SetTopShape
    <2> QED
      BY <1>13, <2>3, <2>5, <2>7, OtherPods DEF ShapeInv, TypeOK
  <1>14. ASSUME NEW p \in Pods, SaveAnchor(p) PROVE ShapeInv'
    <2>1. PICK a \in Pending(p) : anchors' = anchors \cup {a} /\ Settle(p, a)
      BY <1>14 DEF SaveAnchor
    <2>2. a \in Anchors
      <3>1. stack[p] \in Seq(Frames) /\ Len(stack[p]) = 1
        BY <1>14, ActivePod DEF SaveAnchor, Idle, Shape
      <3>2. stack[p][1] \in Frames
        BY <3>1, ElementOfSeq
      <3> QED
        BY <3>2 DEF Pending, Frames
    <2> QED
      BY <1>13, <1>14, <2>1, <2>2 DEF SaveAnchor, ShapeInv, TypeOK
  <1>15. ASSUME NEW p \in Pods, SaveAnchorFails(p) PROVE ShapeInv'
    <2>1. PICK a \in Pending(p) : Settle(p, a)
      BY <1>15 DEF SaveAnchorFails
    <2> QED
      BY <1>13, <1>15, <2>1 DEF SaveAnchorFails, Failure, ShapeInv, TypeOK
  <1>16. ASSUME NEW p \in Pods, Ready(p) \/ Stop(p) PROVE ShapeInv'
    <2>1. /\ stack' = [stack EXCEPT ![p] = << >>] /\ UNCHANGED lists
          /\ pc' = [pc EXCEPT ![p] = "ready"] \/ pc' = [pc EXCEPT ![p] = "down"]
          /\ clean' = clean \/ clean' = [clean EXCEPT ![p] = FALSE]
          /\ UNCHANGED <<clock, lastFetchDate, anchors, lastSeen>>
      BY <1>16 DEF Ready, Stop, SetStack, Goto
    <2>2. << >> \in Seq(Frames) /\ Len(<< >>) = 0
      BY EmptySeq
    <2>3. TypeOK'
      BY <2>1, <2>2 DEF ShapeInv, TypeOK, Idle
    <2>4. Shape(p)'
      BY <2>1, <2>2 DEF ShapeInv, TypeOK, Shape, Idle
    <2> QED
      BY <2>1, <2>3, <2>4, OtherPods DEF ShapeInv, TypeOK
  <1>17. CASE ClockMoves
    BY <1>17 DEF ClockMoves, ShapeInv, TypeOK, Shape, Dates
  <1>18. CASE UNCHANGED vars
    BY <1>18 DEF vars, ShapeInv, TypeOK, Shape
  <1> QED
    BY <1>1, <1>2, <1>3, <1>4, <1>5, <1>6, <1>7, <1>8, <1>9, <1>10, <1>11, <1>12,
       <1>14, <1>15, <1>16, <1>17, <1>18 DEF Next, Refresh

LEMMA ShapeInvariant == Spec => []ShapeInv
  BY ShapeInit, ShapeNext, PTL DEF Spec

\* The variables keep their types whatever the pods do and whatever fails.
THEOREM TypeCorrect == Spec => []TypeOK
  <1>1. ShapeInv => TypeOK
    BY DEF ShapeInv
  <1> QED
    BY <1>1, ShapeInvariant, PTL

-----------------------------------------------------------------------------
(* What a launch has found and not yet stored *)

Below(s) == UNION {s[i].found : i \in 1 .. Len(s) - 1}

LEMMA FoundSplit ==
  ASSUME NEW s \in Seq(Frames), s # << >>
  PROVE  FoundIn(s) = Below(s) \cup Top(s).found
  <1>1. Len(s) \in Nat \ {0}
    BY EmptySeq
  <1>2. 1 .. Len(s) = (1 .. Len(s) - 1) \cup {Len(s)}
    BY <1>1
  <1> QED
    BY <1>2 DEF FoundIn, Below, Top

LEMMA FoundSetTop ==
  ASSUME NEW s \in Seq(Frames), s # << >>, NEW f \in Frames
  PROVE  FoundIn(SetTop(s, f)) = Below(s) \cup f.found
  <1>1. /\ SetTop(s, f) \in Seq(Frames) /\ SetTop(s, f) # << >>
        /\ Len(SetTop(s, f)) = Len(s) /\ Top(SetTop(s, f)) = f
        /\ \A i \in 1 .. Len(s) - 1 : SetTop(s, f)[i] = s[i]
    BY SetTopLemma
  <1>2. Below(SetTop(s, f)) = Below(s)
    BY <1>1 DEF Below
  <1> QED
    BY <1>1, <1>2, FoundSplit

LEMMA FoundPush ==
  ASSUME NEW s \in Seq(Frames), NEW f \in Frames
  PROVE  FoundIn(Append(s, f)) = FoundIn(s) \cup f.found
  <1>1. /\ Append(s, f) \in Seq(Frames) /\ Append(s, f) # << >>
        /\ Len(Append(s, f)) = Len(s) + 1 /\ Top(Append(s, f)) = f
        /\ \A i \in 1 .. Len(s) : Append(s, f)[i] = s[i]
        /\ Len(s) \in Nat
    BY PushLemma
  <1>2. 1 .. Len(Append(s, f)) - 1 = 1 .. Len(s)
    BY <1>1
  <1>3. Below(Append(s, f)) = FoundIn(s)
    BY <1>1, <1>2 DEF Below, FoundIn
  <1> QED
    BY <1>1, <1>3, FoundSplit

LEMMA FoundPop ==
  ASSUME NEW s \in Seq(Frames), Len(s) > 1
  PROVE  FoundIn(Front(s)) = Below(s)
  BY PopLemma DEF FoundIn, Below

LEMMA FoundEndItem ==
  ASSUME NEW s \in Seq(Frames), s # << >>, Top(s).todo # << >>,
         NEW new \in SUBSET Anchors
  PROVE  FoundIn(EndItem(s, new)) = FoundIn(s) \cup new
  <1>1. /\ EndItem(s, new) \in Seq(Frames)
        /\ EndItem(s, new) # << >>
        /\ Len(EndItem(s, new)) = Len(s)
        /\ Top(EndItem(s, new)).found = Top(s).found \cup new
        /\ \A i \in 1 .. Len(s) - 1 : EndItem(s, new)[i] = s[i]
    BY EndItemLemma
  <1>2. Below(EndItem(s, new)) = Below(s)
    BY <1>1 DEF Below
  <1> QED
    BY <1>1, <1>2, FoundSplit

LEMMA FoundEmpty == FoundIn(<< >>) = {}
  BY DEF FoundIn

Held(p) == FoundIn(stack[p])

\* What a step of the refresh does to what pod p holds: a download adds what was
\* served, and any other step moves one anchor into the database or leaves the
\* database alone; what it takes away then is lost, against LosslessFaults and in
\* a launch that is not clean.
HeldStep(p) ==
  /\ Fetch(p) =>
       /\ Held(p)' = Held(p) \cup AnchorsOf(Top(stack[p]).list, lastSeen'[Top(stack[p]).list])
       /\ UNCHANGED anchors
  /\ ~Fetch(p) =>
       \/ /\ Held(p)' \subseteq Held(p)
          /\ LosslessFaults \/ clean'[p] => Held(p)' = Held(p)
          /\ UNCHANGED anchors
       \/ \E a \in Held(p) : anchors' = anchors \cup {a} /\ Held(p)' = Held(p) \ {a}

LEMMA HeldByStep ==
  ASSUME NEW p \in Pods, ShapeInv, Launch(p) \/ Refresh(p) \/ Stop(p)
  PROVE  HeldStep(p) /\ \A q \in Pods \ {p} : stack'[q] = stack[q]
  <1> USE DEF stored, HeldStep, Held, SetStack, Goto
  <1>0. stack \in [Pods -> Seq(Frames)] /\ clean \in [Pods -> BOOLEAN]
    BY DEF ShapeInv, TypeOK
  <1>a. ASSUME pc[p] \notin Idle
        PROVE  /\ stack[p] \in Seq(Frames) /\ stack[p] # << >>
               /\ Top(stack[p]) \in Frames /\ Len(stack[p]) \in Nat \ {0}
               /\ pc[p] \in {"find", "insert"} => Top(stack[p]).todo # << >>
               /\ pc[p] = "fetch" => Top(stack[p]).found = {}
               /\ pc[p] = "save" => Len(stack[p]) = 1
               /\ pc[p] \in {"fetch", "stamp"} => Len(stack[p]) >= 2
    BY <1>a, ActivePod DEF Shape
  <1>b. ASSUME NEW d, Visit(p, d), d \in ListIds, UNCHANGED <<anchors, lastSeen>>,
               pc[p] \in {"find", "insert"}
        PROVE  HeldStep(p) /\ \A q \in Pods \ {p} : stack'[q] = stack[q]
    <2>1. /\ stack[p] \in Seq(Frames) /\ stack[p] # << >> /\ Top(stack[p]).todo # << >>
          /\ {} \in SUBSET Anchors
      BY <1>a, <1>b DEF Idle
    <2>2. ~Fetch(p)
      BY <1>b DEF Fetch
    <2>3. CASE Wanted(p, d)
      <3> DEFINE f == [list |-> d, found |-> {}, todo |-> << >>]
      <3>1. f \in Frames /\ f.found = {}
        BY <1>b, EmptySeq DEF Frames
      <3>2. stack' = [stack EXCEPT ![p] = Append(stack[p], f)]
        BY <1>b, <2>3 DEF Visit
      <3> HIDE DEF f
      <3>3. FoundIn(Append(stack[p], f)) = FoundIn(stack[p]) \cup f.found
        BY <2>1, <3>1, FoundPush
      <3> QED
        BY <1>0, <1>b, <2>2, <3>1, <3>2, <3>3
    <2>4. CASE ~Wanted(p, d)
      <3>1. stack' = [stack EXCEPT ![p] = EndItem(stack[p], {})]
        BY <1>b, <2>4 DEF Visit
      <3>2. FoundIn(EndItem(stack[p], {})) = FoundIn(stack[p]) \cup {}
        BY <2>1, FoundEndItem
      <3> QED
        BY <1>0, <1>b, <2>2, <3>1, <3>2
    <2> QED
      BY <2>3, <2>4
  <1>1. CASE Launch(p)
    <2> DEFINE f == [list |-> NoList, found |-> {}, todo |-> ParentLists]
    <2>1. f.found = {} /\ f \in Frames
      BY ConstantsAssumption DEF Frames
    <2>2. stack' = [stack EXCEPT ![p] = <<f>>] /\ UNCHANGED anchors /\ ~Fetch(p)
      BY <1>1 DEF Launch, Fetch
    <2> HIDE DEF f
    <2>3. stack[p] = << >>
      BY <1>1 DEF Launch, ShapeInv, Shape, Idle
    <2>4. FoundIn(<<f>>) = {}
      <3>1. Len(<<f>>) = 1 /\ <<f>>[1] = f
        OBVIOUS
      <3> QED
        BY <2>1, <3>1 DEF FoundIn
    <2> QED
      BY <1>0, <2>2, <2>3, <2>4, FoundEmpty
  <1>2. CASE TakeItem(p) \/ BeginSave(p) \/ Stamp(p) \/ (FetchFails(p) /\ ~Fetch(p))
    <2>1. UNCHANGED <<stack, anchors>> /\ ~Fetch(p)
      BY <1>2 DEF TakeItem, BeginSave, FetchFails, Stamp, Fetch
    <2> QED
      BY <2>1
  <1>3. CASE TakeItemFails(p)
    <2>1. /\ stack[p] \in Seq(Frames) /\ stack[p] # << >> /\ Top(stack[p]).todo # << >>
          /\ {} \in SUBSET Anchors
      BY <1>3, <1>a DEF TakeItemFails, Idle
    <2>2. FoundIn(EndItem(stack[p], {})) = FoundIn(stack[p]) \cup {}
      BY <2>1, FoundEndItem
    <2> QED
      BY <1>0, <1>3, <2>2 DEF TakeItemFails, Fetch
  <1>4. CASE Find(p)
    <2>1. CASE \E d \in lists : Visit(p, d)
      BY <1>4, <1>b, <2>1 DEF Find, ShapeInv, TypeOK
    <2>2. CASE UNCHANGED stack
      BY <1>4, <2>2 DEF Find, Fetch
    <2> QED
      BY <1>4, <2>1, <2>2 DEF Find
  <1>5. CASE Insert(p)
    <2> DEFINE d == [uri |-> Target(p), by |-> p]
    <2>1. Top(stack[p]).todo \in Seq(Uris) /\ Top(stack[p]).todo # << >>
      BY <1>5, ActivePod DEF Insert, Idle, ShapeInv, Shape
    <2>2. d \in ListIds
      BY <2>1, HeadTailProperties DEF Target, ListIds
    <2>3. Visit(p, d)
      BY <1>5 DEF Insert
    <2> HIDE DEF d
    <2> QED
      BY <1>5, <1>b, <2>2, <2>3 DEF Insert
  <1>6. CASE FindFails(p)
    <2>1. CASE UNCHANGED stack
      BY <1>6, <2>1 DEF FindFails, Fetch
    <2>2. CASE SetStack(p, EndItem(stack[p], {}))
      <3>1. /\ stack[p] \in Seq(Frames) /\ stack[p] # << >> /\ Top(stack[p]).todo # << >>
            /\ {} \in SUBSET Anchors
        BY <1>6, <1>a DEF FindFails, Idle
      <3>2. FoundIn(EndItem(stack[p], {})) = FoundIn(stack[p]) \cup {}
        BY <3>1, FoundEndItem
      <3> QED
        BY <1>0, <1>6, <2>2, <3>2 DEF FindFails, Fetch
    <2> QED
      BY <1>6, <2>1, <2>2 DEF FindFails
  <1>7. CASE Fetch(p)
    <2> DEFINE d == Top(stack[p]).list
    <2>1. /\ stack[p] \in Seq(Frames) /\ stack[p] # << >> /\ Top(stack[p]).found = {}
          /\ pc[p] \notin Idle /\ Len(stack[p]) >= 2
      BY <1>7, <1>a DEF Fetch, Idle
    <2>2. d \in ListIds
      BY <2>1, CalledList
    <2>3. PICK served \in SUBSET Offers[d.uri] :
            /\ lastSeen' = [lastSeen EXCEPT ![d] = served]
            /\ SetStack(p, SetTop(stack[p], [list  |-> d,
                                             found |-> AnchorsOf(d, served),
                                             todo  |-> Pointers[d.uri]]))
      BY <1>7 DEF Fetch
    <2> DEFINE f == [list |-> d, found |-> AnchorsOf(d, served), todo |-> Pointers[d.uri]]
    <2>4. f \in Frames /\ f.found = AnchorsOf(d, served)
      <3>1. d.uri \in Uris /\ served \subseteq Certs
        BY <2>2, ConstantsAssumption DEF ListIds
      <3> QED
        BY <2>2, <3>1, ConstantsAssumption DEF Frames, Anchors, AnchorsOf
    <2>5. lastSeen'[d] = served
      BY <2>2, <2>3 DEF ShapeInv, TypeOK
    <2>6. stack' = [stack EXCEPT ![p] = SetTop(stack[p], f)] /\ UNCHANGED anchors
      BY <1>7, <2>3 DEF Fetch
    <2> HIDE DEF f
    <2>7. /\ FoundIn(SetTop(stack[p], f)) = Below(stack[p]) \cup f.found
          /\ FoundIn(stack[p]) = Below(stack[p])
      BY <2>1, <2>4, FoundSetTop, FoundSplit
    <2> QED
      BY <1>0, <1>7, <2>4, <2>5, <2>6, <2>7
  <1>8. CASE StampFails(p)
    <2>1. /\ stack[p] \in Seq(Frames) /\ stack[p] # << >> /\ Top(stack[p]) \in Frames
          /\ Len(stack[p]) >= 2 /\ ~Fetch(p) /\ pc[p] \notin Idle
          /\ UNCHANGED anchors
      BY <1>8, <1>a DEF StampFails, Fetch, Idle
    <2>2. CASE SetStack(p, SetTop(stack[p], [Top(stack[p]) EXCEPT !.todo = << >>]))
      <3> DEFINE f == [Top(stack[p]) EXCEPT !.todo = << >>]
      <3>1. f \in Frames /\ f.found = Top(stack[p]).found
        BY <2>1, EmptySeq DEF Frames
      <3>2. stack' = [stack EXCEPT ![p] = SetTop(stack[p], f)]
        BY <2>2
      <3> HIDE DEF f
      <3>3. FoundIn(SetTop(stack[p], f)) = FoundIn(stack[p])
        BY <2>1, <3>1, FoundSetTop, FoundSplit
      <3> QED
        BY <1>0, <2>1, <3>2, <3>3
    <2>3. CASE IsMozilla(Top(stack[p]).list) /\ SetStack(p, <<Head(stack[p])>>)
      <3> DEFINE f == Head(stack[p])
      <3>1. ~LosslessFaults /\ ~clean'[p]
        BY <1>0, <1>8, <2>3 DEF LosslessFaults, StampFails, Failure, IsMozilla
      <3>2. stack' = [stack EXCEPT ![p] = <<f>>]
        BY <2>3
      <3>3. f = stack[p][1]
        BY <2>1
      <3> HIDE DEF f
      <3>4. <<f>>[1] = f /\ Len(<<f>>) = 1
        OBVIOUS
      <3>5. FoundIn(<<f>>) = f.found
        BY <3>4 DEF FoundIn
      <3>6. f.found \subseteq FoundIn(stack[p])
        <4>1. 1 \in 1 .. Len(stack[p])
          BY <2>1, LenProperties
        <4> QED
          BY <3>3, <4>1 DEF FoundIn
      <3> QED
        BY <1>0, <2>1, <3>1, <3>2, <3>5, <3>6
    <2> QED
      BY <1>8, <2>2, <2>3 DEF StampFails
  <1>9. CASE Return(p)
    <2>1. /\ stack[p] \in Seq(Frames) /\ stack[p] # << >> /\ Top(stack[p]) \in Frames
          /\ Len(stack[p]) \in Nat \ {0} /\ ~Fetch(p) /\ UNCHANGED anchors /\ Shape(p)
      BY <1>9, <1>a DEF Return, Fetch, Idle, ShapeInv
    <2>2. Len(stack[p]) > 1
      <3>1. \A n \in Nat \ {0} : n = 1 \/ n > 1
        OBVIOUS
      <3> QED
        BY <1>9, <2>1, <3>1, Zenon DEF Return, AtRoot
    <2> DEFINE r == Front(stack[p])
    <2>3. r \in Seq(Frames) /\ r # << >> /\ Top(r).todo # << >>
      <3>1. /\ r \in Seq(Frames) /\ r # << >>
            /\ Len(r) = Len(stack[p]) - 1
            /\ \A i \in 1 .. Len(stack[p]) - 1 : r[i] = stack[p][i]
        BY <2>1, <2>2, PopLemma
      <3>2. \A i \in 1 .. Len(stack[p]) - 1 : stack[p][i].todo # << >>
        BY <2>1 DEF Shape
      <3> HIDE DEF r
      <3> QED
        BY <2>1, <2>2, <3>1, <3>2 DEF Top
    <2>4. Top(stack[p]).found \in SUBSET Anchors
      BY <2>1 DEF Frames
    <2>5. stack' = [stack EXCEPT ![p] = EndItem(r, Top(stack[p]).found)]
      BY <1>9 DEF Return
    <2>6. FoundIn(r) = Below(stack[p])
      BY <2>1, <2>2, FoundPop
    <2> HIDE DEF r
    <2>7. FoundIn(EndItem(r, Top(stack[p]).found)) = FoundIn(r) \cup Top(stack[p]).found
      BY <2>3, <2>4, FoundEndItem
    <2>8. FoundIn(stack[p]) = Below(stack[p]) \cup Top(stack[p]).found
      BY <2>1, FoundSplit
    <2> QED
      BY <1>0, <2>1, <2>5, <2>6, <2>7, <2>8
  <1>10. ASSUME NEW a \in Pending(p), Settle(p, a), pc[p] = "save"
         PROVE  /\ FoundIn(stack'[p]) = FoundIn(stack[p]) \ {a} /\ a \in FoundIn(stack[p])
                /\ \A q \in Pods \ {p} : stack'[q] = stack[q]
    <2> DEFINE f == [Top(stack[p]) EXCEPT !.found = @ \ {a}]
    <2>1. /\ stack[p] \in Seq(Frames) /\ stack[p] # << >> /\ Top(stack[p]) \in Frames
          /\ Len(stack[p]) = 1
      BY <1>10, <1>a DEF Idle
    <2>2. f \in Frames /\ f.found = Top(stack[p]).found \ {a}
      BY <2>1 DEF Frames
    <2>3. stack' = [stack EXCEPT ![p] = SetTop(stack[p], f)]
      BY <1>10 DEF Settle
    <2> HIDE DEF f
    <2>4. Below(stack[p]) = {}
      BY <2>1 DEF Below
    <2>5. FoundIn(SetTop(stack[p], f)) = f.found /\ FoundIn(stack[p]) = Top(stack[p]).found
      <3>1. FoundIn(SetTop(stack[p], f)) = Below(stack[p]) \cup f.found
        BY <2>1, <2>2, FoundSetTop
      <3>2. FoundIn(stack[p]) = Below(stack[p]) \cup Top(stack[p]).found
        BY <2>1, FoundSplit
      <3> QED
        BY <2>4, <3>1, <3>2
    <2>6. a \in Top(stack[p]).found
      BY <1>10, <2>1 DEF Pending, Top
    <2> QED
      BY <1>0, <2>2, <2>3, <2>5, <2>6
  <1>11. CASE SaveAnchor(p)
    BY <1>10, <1>11 DEF SaveAnchor, Fetch
  <1>12. CASE SaveAnchorFails(p)
    <2>1. ~LosslessFaults /\ ~clean'[p] /\ ~Fetch(p) /\ UNCHANGED anchors
      BY <1>0, <1>12 DEF SaveAnchorFails, Fetch, Failure, LosslessFaults
    <2>2. PICK a \in Pending(p) : Settle(p, a) /\ pc[p] = "save"
      BY <1>12 DEF SaveAnchorFails
    <2> QED
      BY <1>10, <2>1, <2>2
  <1>13. CASE Ready(p)
    <2>1. /\ stack[p] \in Seq(Frames) /\ stack[p] # << >> /\ Len(stack[p]) = 1
          /\ ~Fetch(p) /\ UNCHANGED anchors /\ stack' = [stack EXCEPT ![p] = << >>]
      BY <1>13, <1>a DEF Ready, Fetch, Idle
    <2>2. FoundIn(stack[p]) = {}
      BY <1>13, <2>1 DEF FoundIn, Ready, Pending
    <2> QED
      BY <1>0, <2>1, <2>2, FoundEmpty
  <1>14. CASE Stop(p)
    <2>1. /\ ~Fetch(p) /\ UNCHANGED anchors /\ stack' = [stack EXCEPT ![p] = << >>]
      <3>1. DOMAIN pc = Pods /\ pc' = [pc EXCEPT ![p] = "down"]
        BY <1>14 DEF Stop, ShapeInv, TypeOK, Idle
      <3>2. Fetch(p) => pc' = [pc EXCEPT ![p] = "stamp"]
        BY DEF Fetch
      <3>3. ~Fetch(p)
        BY <3>1, <3>2
      <3> QED
        BY <1>14, <3>3 DEF Stop
    <2>2. /\ LosslessFaults => stack[p] = << >>
          /\ ~clean'[p]
      BY <1>0, <1>14 DEF Stop, LosslessFaults, ShapeInv, Shape, Idle
    <2> QED
      BY <1>0, <2>1, <2>2, FoundEmpty
  <1> QED
    BY <1>1, <1>2, <1>3, <1>4, <1>5, <1>6, <1>7, <1>8, <1>9, <1>11, <1>12, <1>13, <1>14 DEF Refresh

LEMMA HeldIsKept ==
  ASSUME NEW p \in Pods, ShapeInv, Launch(p) \/ Refresh(p) \/ Stop(p)
  PROVE  /\ LosslessFaults => Kept \subseteq Kept'
         /\ Fetch(p) => Kept' = Kept \cup AnchorsOf(Top(stack[p]).list, lastSeen'[Top(stack[p]).list])
         /\ ~Fetch(p) => Kept' \subseteq Kept
  <1>1. HeldStep(p) /\ \A q \in Pods \ {p} : stack'[q] = stack[q]
    BY HeldByStep
  <1> DEFINE others == UNION {FoundIn(stack[q]) : q \in Pods \ {p}}
  <1>2. Kept = others \cup Held(p) \cup anchors
    BY DEF Kept, Held
  <1>3. others' = others
    BY <1>1
  <1>4. Kept' = others' \cup Held(p)' \cup anchors'
    BY DEF Kept, Held
  <1> HIDE DEF others
  <1> QED
    BY <1>1, <1>2, <1>3, <1>4 DEF HeldStep

\* Only a successful download changes what was last seen.
LEMMA SeenByFetch ==
  ASSUME NEW p \in Pods, Launch(p) \/ Refresh(p) \/ Stop(p), ~Fetch(p)
  PROVE  UNCHANGED lastSeen
  BY DEF Launch, Refresh, Stop, TakeItem, TakeItemFails, Find, Insert, FindFails, FetchFails,
         Stamp, StampFails, Return, BeginSave, SaveAnchor, SaveAnchorFails, Ready

LEMMA FetchServes ==
  ASSUME NEW p \in Pods, ShapeInv, Fetch(p)
  PROVE  \E d \in lists : /\ d = Top(stack[p]).list /\ d \in ListIds
                          /\ lastSeen'[d] \subseteq Offers[d.uri]
                          /\ lastSeen' = [lastSeen EXCEPT ![d] = lastSeen'[d]]
                          /\ UNCHANGED lists
  <1> DEFINE d == Top(stack[p]).list
  <1>1. d \in lists /\ d \in ListIds
    BY CalledList DEF Fetch, Idle, ShapeInv, Shape
  <1>2. PICK served \in SUBSET Offers[d.uri] : lastSeen' = [lastSeen EXCEPT ![d] = served]
    BY DEF Fetch
  <1>3. UNCHANGED lists
    BY DEF Fetch, stored
  <1> HIDE DEF d
  <1>4. lastSeen'[d] = served
    BY <1>1, <1>2 DEF ShapeInv, TypeOK
  <1> QED
    BY <1>1, <1>2, <1>3, <1>4 DEF d

LEMMA IdleKeeps ==
  ASSUME ClockMoves \/ UNCHANGED vars
  PROVE  UNCHANGED <<lists, anchors, stack, lastSeen>> /\ Kept' = Kept
  <1>1. UNCHANGED <<lists, anchors, stack, lastSeen>>
    BY DEF ClockMoves, vars, stored
  <1> QED
    BY <1>1 DEF Kept

\* Whatever the pods do and however their steps interleave, nothing that the
\* last download of a list held is dropped on its way into the database, as
\* long as no process is killed and no write of an anchor fails.
THEOREM SeenIsKept ==
  ASSUME LosslessFaults
  PROVE  Spec => []NothingSeenIsLost
  <1>1. Init => NothingSeenIsLost
    BY DEF Init, NothingSeenIsLost, AnchorsOf
  <1>2. ShapeInv /\ NothingSeenIsLost /\ [Next]_vars => NothingSeenIsLost'
    <2> SUFFICES ASSUME ShapeInv, NothingSeenIsLost, [Next]_vars PROVE NothingSeenIsLost'
      OBVIOUS
    <2>1. ASSUME NEW p \in Pods, Fetch(p) PROVE NothingSeenIsLost'
      <3>1. PICK d \in lists : /\ d = Top(stack[p]).list /\ d \in ListIds
                               /\ lastSeen' = [lastSeen EXCEPT ![d] = lastSeen'[d]]
        BY <2>1, FetchServes
      <3>2. Kept \subseteq Kept' /\ AnchorsOf(d, lastSeen'[d]) \subseteq Kept'
        BY <2>1, <3>1, HeldIsKept DEF Refresh
      <3>3. \A e \in ListIds : e # d => lastSeen'[e] = lastSeen[e]
        BY <3>1 DEF ShapeInv, TypeOK
      <3> QED
        BY <3>1, <3>2, <3>3 DEF NothingSeenIsLost
    <2>2. ASSUME NEW p \in Pods, Launch(p) \/ Refresh(p) \/ Stop(p), ~Fetch(p)
          PROVE  NothingSeenIsLost'
      <3>1. Kept \subseteq Kept' /\ UNCHANGED lastSeen
        BY <2>2, HeldIsKept, SeenByFetch
      <3> QED
        BY <3>1 DEF NothingSeenIsLost
    <2>3. CASE ClockMoves \/ UNCHANGED vars
      BY <2>3, IdleKeeps DEF NothingSeenIsLost
    <2> QED
      BY <2>1, <2>2, <2>3 DEF Next
  <1> QED
    BY <1>1, <1>2, ShapeInvariant, PTL DEF Spec

\* An anchor is only ever stored, or about to be, under a stored list document
\* whose publisher offers its certificate.
THEOREM AttributedCorrect == Spec => []AttributedToSource
  <1> DEFINE Attributed == \A a \in Kept : a.list \in lists /\ a.cert \in Offers[a.list.uri]
  <1>1. Init => Attributed
    BY FoundEmpty DEF Init, Kept
  <1>2. ShapeInv /\ Attributed /\ [Next]_vars => Attributed'
    <2> SUFFICES ASSUME ShapeInv, Attributed, [Next]_vars PROVE Attributed'
      OBVIOUS
    <2>1. ASSUME NEW p \in Pods, Fetch(p) PROVE Attributed'
      <3>1. PICK d \in lists : /\ d = Top(stack[p]).list
                               /\ lastSeen'[d] \subseteq Offers[d.uri]
                               /\ UNCHANGED lists
        BY <2>1, FetchServes
      <3>2. Kept' = Kept \cup AnchorsOf(d, lastSeen'[d])
        BY <2>1, <3>1, HeldIsKept DEF Refresh
      <3>3. \A a \in AnchorsOf(d, lastSeen'[d]) : a.list = d /\ a.cert \in lastSeen'[d]
        BY DEF AnchorsOf
      <3> QED
        BY <3>1, <3>2, <3>3
    <2>2. ASSUME NEW p \in Pods, Launch(p) \/ Refresh(p) \/ Stop(p), ~Fetch(p)
          PROVE  Attributed'
      <3>1. Kept' \subseteq Kept
        BY <2>2, HeldIsKept
      <3>2. lists \subseteq lists'
        BY <2>2 DEF Launch, Refresh, Stop, TakeItem, TakeItemFails, Find, Insert, FindFails,
          FetchFails, Stamp, StampFails, Return, BeginSave, SaveAnchor, SaveAnchorFails, Ready, stored
      <3> QED
        BY <3>1, <3>2
    <2>3. CASE ClockMoves \/ UNCHANGED vars
      BY <2>3, IdleKeeps
    <2> QED
      BY <2>1, <2>2, <2>3 DEF Next
  <1>3. Attributed => AttributedToSource
    BY DEF AttributedToSource, Kept
  <1> QED
    BY <1>1, <1>2, <1>3, ShapeInvariant, PTL DEF Spec

-----------------------------------------------------------------------------
(* The recursion through the pointers is never in the same list twice *)

\* A list whose call has begun to follow its pointers was fetched "now", so it
\* is not due.
Recursion(p) ==
  /\ \A i, j \in 2 .. Len(stack[p]) : stack[p][i].list = stack[p][j].list => i = j
  /\ \A i \in 2 .. Len(stack[p]) : Entered(p, i) => lastFetchDate[stack[p][i].list] = clock

RecursionInv == \A p \in Pods : Recursion(p)

LEMMA NotDueNow ==
  ASSUME ShapeInv, NEW d, lastFetchDate[d] = clock
  PROVE  ~Due(d)
  BY ConstantsAssumption DEF Due, ShapeInv, TypeOK, Dates

\* The end of an iteration, in a loop that was entered.
LEMMA EndItemRecursion ==
  ASSUME NEW p \in Pods, ShapeInv, Recursion(p), pc[p] \in {"next", "find", "insert"},
         Top(stack[p]).todo # << >>, stack'[p] = EndItem(stack[p], {}), pc'[p] = "next",
         UNCHANGED <<clock, lastFetchDate>>
  PROVE  Recursion(p)'
  <1>1. stack[p] \in Seq(Frames) /\ stack[p] # << >> /\ {} \in SUBSET Anchors
    BY ActivePod DEF Idle
  <1>2. /\ Len(stack'[p]) = Len(stack[p]) /\ Len(stack[p]) \in Nat \ {0}
        /\ Top(stack'[p]).list = Top(stack[p]).list
        /\ \A i \in 1 .. Len(stack[p]) - 1 : stack'[p][i] = stack[p][i]
    BY <1>1, EndItemLemma
  <1>3. \A i \in 2 .. Len(stack[p]) : stack'[p][i].list = stack[p][i].list
    BY <1>2 DEF Top
  <1>4. \A i \in 2 .. Len(stack[p]) : Entered(p, i)
    BY <1>2 DEF Entered, Top
  <1> QED
    BY <1>2, <1>3, <1>4 DEF Recursion

\* A step that keeps the height and the lists of the stack and enters no loop.
LEMMA SameRecursion ==
  ASSUME NEW p \in Pods, ShapeInv, Recursion(p), pc[p] \notin Idle,
         Len(stack'[p]) = Len(stack[p]),
         \A i \in 2 .. Len(stack[p]) : stack'[p][i].list = stack[p][i].list,
         \A i \in 2 .. Len(stack[p]) : Entered(p, i)' => Entered(p, i),
         UNCHANGED <<clock, lastFetchDate>>
  PROVE  Recursion(p)'
  BY DEF Recursion

\* A step to a stack with at most the root frame.
LEMMA ShortRecursion ==
  ASSUME NEW p \in Pods, Len(stack'[p]) \in {0, 1}
  PROVE  Recursion(p)'
  <1>1. 2 .. 0 = {} /\ 2 .. 1 = {}
    OBVIOUS
  <1>2. 2 .. Len(stack'[p]) = {}
    BY <1>1, Zenon
  <1> QED
    BY <1>2 DEF Recursion

LEMMA RecursionInit == Init => RecursionInv
  <1>1. \A p \in Pods : Init => stack[p] = << >> /\ pc[p] = "down"
    BY DEF Init
  <1>2. 2 .. Len(<< >>) = {}
    BY EmptySeq
  <1> QED
    BY <1>1, <1>2 DEF RecursionInv, Recursion

\* The recursion of the pods that do not move is not disturbed: dates are only
\* set to the time it is.
LEMMA OtherRecursion ==
  ASSUME NEW p \in Pods, RecursionInv, Launch(p) \/ Refresh(p) \/ Stop(p), ShapeInv,
         NEW q \in Pods \ {p}
  PROVE  Recursion(q)'
  <1>1. Recursion(q)
    BY DEF RecursionInv
  <1>2. stack'[q] = stack[q]
    BY HeldByStep
  <1>3. pc'[q] = pc[q] /\ clock' = clock
    BY DEF Launch, Refresh, Stop, TakeItem, TakeItemFails, Find, Insert, FindFails, Fetch,
      FetchFails, Stamp, StampFails, Return, BeginSave, SaveAnchor, SaveAnchorFails, Ready,
      Goto, Visit, ShapeInv, TypeOK
  <1>4. \A d \in ListIds : lastFetchDate'[d] = lastFetchDate[d] \/ lastFetchDate'[d] = clock
    <2>1. CASE Stamp(p)
      BY <2>1 DEF Stamp, ShapeInv, TypeOK
    <2>2. CASE ~Stamp(p)
      BY <2>2 DEF Launch, Refresh, Stop, TakeItem, TakeItemFails, Find, Insert, FindFails, Fetch,
        FetchFails, StampFails, Return, BeginSave, SaveAnchor, SaveAnchorFails, Ready, stored
    <2> QED
      BY <2>1, <2>2
  <1>5. \A i \in 2 .. Len(stack[q]) : stack[q][i].list \in ListIds
    BY DEF ShapeInv, Shape, TypeOK
  <1>6. \A i \in 2 .. Len(stack[q]) : Entered(q, i)' <=> Entered(q, i)
    BY <1>2, <1>3 DEF Entered
  <1> QED
    BY <1>1, <1>2, <1>3, <1>4, <1>5, <1>6 DEF Recursion

\* fetchTrustAnchors calls the parser only for a list that is not being parsed.
LEMMA VisitRecursion ==
  ASSUME NEW p \in Pods, ShapeInv, RecursionInv, NEW d \in ListIds, Visit(p, d),
         pc[p] \in {"find", "insert"}, UNCHANGED <<clock, lastFetchDate>>
  PROVE  Recursion(p)'
  <1>1. /\ stack[p] \in Seq(Frames) /\ stack[p] # << >> /\ Top(stack[p]).todo # << >>
        /\ Len(stack[p]) \in Nat \ {0} /\ Recursion(p)
    BY ActivePod DEF Idle, Shape, RecursionInv
  <1>2. CASE Wanted(p, d)
    <2> DEFINE f == [list |-> d, found |-> {}, todo |-> << >>]
    <2>1. f \in Frames /\ f.list = d
      BY EmptySeq DEF Frames
    <2>2. /\ stack' = [stack EXCEPT ![p] = Append(stack[p], f)]
          /\ pc' = [pc EXCEPT ![p] = "fetch"]
      BY <1>2 DEF Visit, SetStack, Goto
    <2> HIDE DEF f
    <2>3. stack'[p] = Append(stack[p], f) /\ pc'[p] = "fetch"
      BY <2>2 DEF ShapeInv, TypeOK
    <2>4. /\ Len(stack'[p]) = Len(stack[p]) + 1 /\ Top(stack'[p]) = f
          /\ \A i \in 1 .. Len(stack[p]) : stack'[p][i] = stack[p][i]
      BY <1>1, <2>1, <2>3, PushLemma
    <2>5. \A i \in 2 .. Len(stack[p]) : lastFetchDate[stack[p][i].list] = clock
      BY <1>1 DEF Recursion, Entered
    <2>6. \A i \in 2 .. Len(stack[p]) : stack[p][i].list # d
      <3>1. CASE AtRoot(p)
        BY <3>1 DEF AtRoot
      <3>2. CASE Due(d)
        BY <2>5, <3>2, NotDueNow
      <3> QED
        BY <1>2, <3>1, <3>2 DEF Wanted
    <2>7. stack'[p][Len(stack[p]) + 1].list = d
      BY <2>1, <2>4 DEF Top
    <2>8. \A i, j \in 2 .. Len(stack'[p]) : stack'[p][i].list = stack'[p][j].list => i = j
      <3>1. \A i \in 2 .. Len(stack'[p]) : i \in 2 .. Len(stack[p]) \/ i = Len(stack[p]) + 1
        BY <1>1, <2>4
      <3>2. \A i \in 2 .. Len(stack[p]) : stack'[p][i] = stack[p][i]
        BY <1>1, <2>4
      <3>3. \A i, j \in 2 .. Len(stack[p]) : stack[p][i].list = stack[p][j].list => i = j
        BY <1>1 DEF Recursion
      <3> QED
        BY <2>6, <2>7, <3>1, <3>2, <3>3, Zenon
    <2>9. \A i \in 2 .. Len(stack'[p]) :
            Entered(p, i)' => lastFetchDate[stack'[p][i].list] = clock
      BY <1>1, <2>3, <2>4, <2>5 DEF Entered
    <2> QED
      BY <2>3, <2>8, <2>9 DEF Recursion
  <1>3. CASE ~Wanted(p, d)
    <2>1. stack'[p] = EndItem(stack[p], {}) /\ pc'[p] = "next"
      BY <1>3 DEF Visit, SetStack, Goto, ShapeInv, TypeOK
    <2> QED
      BY <1>1, <2>1, EndItemRecursion
  <1> QED
    BY <1>2, <1>3

LEMMA RecursionNext == ShapeInv /\ RecursionInv /\ [Next]_vars => RecursionInv'
  <1> SUFFICES ASSUME ShapeInv, RecursionInv, [Next]_vars PROVE RecursionInv'
    OBVIOUS
  <1> USE DEF stored
  <1>1. ASSUME NEW p \in Pods, Launch(p) \/ Refresh(p) \/ Stop(p) PROVE Recursion(p)'
    <2>0. /\ Recursion(p) /\ stack \in [Pods -> Seq(Frames)]
          /\ pc \in [Pods -> Idle \cup {"next", "find", "insert", "fetch", "stamp", "save"}]
      BY DEF RecursionInv, ShapeInv, TypeOK
    <2>a. ASSUME pc[p] \notin Idle
          PROVE  /\ stack[p] \in Seq(Frames) /\ stack[p] # << >>
                 /\ Top(stack[p]) \in Frames /\ Len(stack[p]) \in Nat \ {0} /\ Shape(p)
      BY <2>a, ActivePod
    <2>1. CASE Launch(p) \/ Ready(p) \/ Stop(p)
      <3>1. \/ stack'[p] = << >>
            \/ \E f : stack'[p] = <<f>>
        BY <2>0, <2>1 DEF Launch, Ready, Stop, SetStack
      <3>2. Len(stack'[p]) \in {0, 1}
        <4>1. Len(<< >>) = 0 /\ \A f : Len(<<f>>) = 1
          OBVIOUS
        <4> QED
          BY <3>1, <4>1, Zenon
      <3> QED
        BY <3>2, ShortRecursion
    <2>2. CASE TakeItem(p) \/ BeginSave(p) \/ FetchFails(p)
      <3>1. /\ UNCHANGED <<stack, clock, lastFetchDate>> /\ pc[p] \in {"next", "fetch"}
            /\ pc[p] = "next" => pc'[p] = "save" \/ Top(stack[p]).todo # << >>
            /\ pc[p] = "fetch" => pc'[p] \in {"stamp", "next"}
        BY <2>0, <2>2 DEF TakeItem, BeginSave, FetchFails, Goto
      <3>2. pc[p] = "fetch" => Top(stack[p]).todo = << >>
        BY <3>1, <2>a DEF Shape, Idle
      <3>3. \A i \in 2 .. Len(stack[p]) : Entered(p, i)' => Entered(p, i)
        BY <2>a, <3>1, <3>2 DEF Entered, Top, Idle
      <3> QED
        BY <2>0, <3>1, <3>3 DEF Recursion
    <2>3. CASE TakeItemFails(p) \/ FindFails(p)
      <3>1. CASE AtRoot(p) /\ UNCHANGED stack
        <4>1. Len(stack'[p]) = 1
          BY <3>1 DEF AtRoot
        <4> QED
          BY <4>1, ShortRecursion
      <3>2. CASE stack' = [stack EXCEPT ![p] = EndItem(stack[p], {})] /\ pc'[p] = "next"
        <4>1. /\ Top(stack[p]).todo # << >> /\ pc[p] \in {"next", "find"}
              /\ UNCHANGED <<clock, lastFetchDate>>
          BY <2>3, <2>a DEF TakeItemFails, FindFails, Idle, Shape
        <4>2. stack'[p] = EndItem(stack[p], {})
          BY <2>0, <3>2
        <4> QED
          BY <2>0, <3>2, <4>1, <4>2, EndItemRecursion
      <3> QED
        BY <2>0, <2>3, <3>1, <3>2 DEF TakeItemFails, FindFails, SetStack, Goto
    <2>4. CASE Find(p)
      <3>1. CASE \E d \in lists : Visit(p, d)
        BY <2>4, <3>1, VisitRecursion DEF Find, ShapeInv, TypeOK
      <3>2. CASE UNCHANGED stack
        <4>1. UNCHANGED <<clock, lastFetchDate>> /\ pc[p] = "find"
          BY <2>4 DEF Find
        <4>2. \A i \in 2 .. Len(stack[p]) : Entered(p, i)
          BY <4>1 DEF Entered
        <4> QED
          BY <2>0, <3>2, <4>1, <4>2 DEF Recursion
      <3> QED
        BY <2>4, <3>1, <3>2 DEF Find
    <2>5. CASE Insert(p)
      <3> DEFINE d == [uri |-> Target(p), by |-> p]
      <3>1. Top(stack[p]).todo \in Seq(Uris) /\ Top(stack[p]).todo # << >>
        BY <2>5, ActivePod DEF Insert, Idle, ShapeInv, Shape
      <3>2. d \in ListIds
        BY <3>1, HeadTailProperties DEF Target, ListIds
      <3>3. Visit(p, d)
        BY <2>5 DEF Insert
      <3> HIDE DEF d
      <3> QED
        BY <2>5, <3>2, <3>3, VisitRecursion DEF Insert
    <2>6. CASE Fetch(p)
      <3>1. /\ stack[p] \in Seq(Frames) /\ stack[p] # << >> /\ Len(stack[p]) >= 2
            /\ pc[p] \notin Idle /\ Len(stack[p]) \in Nat \ {0}
        BY <2>6, <2>a DEF Fetch, Idle, Shape
      <3>2. PICK served \in SUBSET Offers[Top(stack[p]).list.uri] :
              SetStack(p, SetTop(stack[p], [list  |-> Top(stack[p]).list,
                                            found |-> AnchorsOf(Top(stack[p]).list, served),
                                            todo  |-> Pointers[Top(stack[p]).list.uri]]))
        BY <2>6 DEF Fetch
      <3> DEFINE f == [list  |-> Top(stack[p]).list,
                       found |-> AnchorsOf(Top(stack[p]).list, served),
                       todo  |-> Pointers[Top(stack[p]).list.uri]]
      <3>3. Top(stack[p]).list \in ListIds
        BY <3>1, CalledList
      <3>4. f \in Frames /\ f.list = Top(stack[p]).list
        <4>1. Top(stack[p]).list.uri \in Uris /\ served \subseteq Certs
          BY <3>3, ConstantsAssumption DEF ListIds
        <4> QED
          BY <3>3, <4>1, ConstantsAssumption DEF Frames, Anchors, AnchorsOf
      <3>5. stack'[p] = SetTop(stack[p], f)
        BY <2>0, <3>2 DEF SetStack
      <3> HIDE DEF f
      <3>6. /\ Len(stack'[p]) = Len(stack[p]) /\ Top(stack'[p]) = f
            /\ \A i \in 1 .. Len(stack[p]) - 1 : stack'[p][i] = stack[p][i]
        <4>1. ASSUME NEW g \in Frames
              PROVE  /\ Len(SetTop(stack[p], g)) = Len(stack[p]) /\ Top(SetTop(stack[p], g)) = g
                     /\ \A i \in 1 .. Len(stack[p]) - 1 : SetTop(stack[p], g)[i] = stack[p][i]
          BY <3>1, SetTopLemma
        <4> QED
          BY <3>4, <3>5, <4>1
      <3>7. \A i \in 2 .. Len(stack[p]) : stack'[p][i].list = stack[p][i].list
        BY <3>1, <3>4, <3>6 DEF Top
      <3>8. pc'[p] = "stamp" /\ UNCHANGED <<clock, lastFetchDate>>
        BY <2>0, <2>6 DEF Fetch, Goto
      <3>9. \A i \in 2 .. Len(stack[p]) : Entered(p, i)' => Entered(p, i)
        BY <3>6, <3>8 DEF Entered
      <3> QED
        BY <2>0, <3>1, <3>6, <3>7, <3>8, <3>9, SameRecursion
    <2>7. CASE Stamp(p)
      <3>1. /\ Len(stack[p]) \in Nat \ {0} /\ Len(stack[p]) >= 2 /\ pc[p] \notin Idle
            /\ UNCHANGED <<stack, clock>>
        BY <2>7, <2>a DEF Stamp, Idle, Shape
      <3>2. Top(stack[p]).list \in ListIds
        BY <3>1, CalledList
      <3>3. /\ lastFetchDate'[Top(stack[p]).list] = clock
            /\ \A d \in ListIds : d # Top(stack[p]).list => lastFetchDate'[d] = lastFetchDate[d]
        BY <2>7, <3>2 DEF Stamp, ShapeInv, TypeOK
      <3>4. \A i \in 2 .. Len(stack[p]) : stack[p][i].list \in ListIds
        BY DEF ShapeInv, Shape, TypeOK
      <3>5. \A i \in 2 .. Len(stack[p]) : lastFetchDate'[stack[p][i].list] = clock
        BY <2>0, <3>1, <3>3, <3>4 DEF Recursion, Entered, Top
      <3> QED
        BY <2>0, <3>1, <3>5 DEF Recursion
    <2>8. CASE StampFails(p)
      <3>1. /\ stack[p] \in Seq(Frames) /\ stack[p] # << >> /\ Top(stack[p]) \in Frames
            /\ Len(stack[p]) \in Nat \ {0} /\ pc[p] \notin Idle
            /\ UNCHANGED <<clock, lastFetchDate>>
        BY <2>8, <2>a DEF StampFails, Idle
      <3>2. CASE /\ SetStack(p, SetTop(stack[p], [Top(stack[p]) EXCEPT !.todo = << >>]))
                 /\ Goto(p, "next")
        <4> DEFINE f == [Top(stack[p]) EXCEPT !.todo = << >>]
        <4>1. f \in Frames /\ f.list = Top(stack[p]).list /\ f.todo = << >>
          BY <3>1, EmptySeq DEF Frames
        <4>2. stack'[p] = SetTop(stack[p], f) /\ pc'[p] = "next"
          BY <2>0, <3>2 DEF SetStack, Goto
        <4> HIDE DEF f
        <4>3. /\ Len(stack'[p]) = Len(stack[p]) /\ Top(stack'[p]) = f
              /\ \A i \in 1 .. Len(stack[p]) - 1 : stack'[p][i] = stack[p][i]
          <5>1. ASSUME NEW g \in Frames
                PROVE  /\ Len(SetTop(stack[p], g)) = Len(stack[p]) /\ Top(SetTop(stack[p], g)) = g
                       /\ \A i \in 1 .. Len(stack[p]) - 1 : SetTop(stack[p], g)[i] = stack[p][i]
            BY <3>1, SetTopLemma
          <5> QED
            BY <4>1, <4>2, <5>1
        <4>4. \A i \in 2 .. Len(stack[p]) : stack'[p][i].list = stack[p][i].list
          BY <3>1, <4>1, <4>3 DEF Top
        <4>5. \A i \in 2 .. Len(stack[p]) : Entered(p, i)' => Entered(p, i)
          BY <3>1, <4>1, <4>2, <4>3 DEF Entered, Top
        <4> QED
          BY <2>0, <3>1, <4>3, <4>4, <4>5, SameRecursion
      <3>3. CASE SetStack(p, <<Head(stack[p])>>)
        <4>1. stack'[p] = <<Head(stack[p])>>
          BY <2>0, <3>3 DEF SetStack
        <4>2. Len(stack'[p]) = 1
          BY <4>1
        <4> QED
          BY <4>2, ShortRecursion
      <3> QED
        BY <2>8, <3>2, <3>3 DEF StampFails
    <2>9. CASE Return(p)
      <3>1. /\ stack[p] \in Seq(Frames) /\ Top(stack[p]) \in Frames
            /\ Len(stack[p]) \in Nat \ {0} /\ Shape(p)
        BY <2>9, <2>a DEF Return, Idle
      <3>2. Len(stack[p]) > 1
        <4>1. \A n \in Nat \ {0} : n = 1 \/ n > 1
          OBVIOUS
        <4> QED
          BY <2>9, <3>1, <4>1, Zenon DEF Return, AtRoot
      <3> DEFINE r == Front(stack[p])
      <3>3. /\ r \in Seq(Frames) /\ r # << >>
            /\ Len(r) = Len(stack[p]) - 1
            /\ \A i \in 1 .. Len(stack[p]) - 1 : r[i] = stack[p][i]
        BY <3>1, <3>2, PopLemma
      <3>4. \A i \in 1 .. Len(stack[p]) - 1 : stack[p][i].todo # << >>
        BY <3>1 DEF Shape
      <3>5. stack'[p] = EndItem(r, Top(stack[p]).found) /\ UNCHANGED <<clock, lastFetchDate, pc>>
        BY <2>0, <2>9 DEF Return, SetStack
      <3> HIDE DEF r
      <3>6. Top(r).todo # << >> /\ Top(stack[p]).found \in SUBSET Anchors
        <4>1. Top(r) = stack[p][Len(stack[p]) - 1]
          BY <3>1, <3>2, <3>3 DEF Top
        <4>2. Len(stack[p]) - 1 \in 1 .. Len(stack[p]) - 1
          BY <3>1, <3>2
        <4>3. Top(r).todo # << >>
          BY <3>4, <4>1, <4>2, Zenon
        <4> QED
          BY <3>1, <4>3 DEF Frames
      <3>7. /\ Len(stack'[p]) = Len(r) /\ Top(stack'[p]).list = Top(r).list
            /\ \A i \in 1 .. Len(r) - 1 : stack'[p][i] = r[i]
        BY <3>3, <3>5, <3>6, EndItemLemma
      <3>8. \A i \in 2 .. Len(r) : r[i] = stack[p][i] /\ i \in 2 .. Len(stack[p]) /\ i < Len(stack[p])
        BY <3>1, <3>2, <3>3
      <3>9. \A i \in 2 .. Len(r) : stack'[p][i].list = r[i].list
        <4>1. \A i \in 2 .. Len(r) : i \in 1 .. Len(r) - 1 \/ i = Len(r)
          BY <3>1, <3>3
        <4>2. stack'[p][Len(r)].list = r[Len(r)].list
          BY <3>7 DEF Top
        <4> QED
          BY <3>7, <4>1, <4>2
      <3>10. \A i \in 2 .. Len(r) : lastFetchDate[stack[p][i].list] = clock
        BY <2>0, <3>8 DEF Recursion, Entered
      <3>12. \A i \in 2 .. Len(stack'[p]) : /\ i \in 2 .. Len(stack[p])
                                            /\ stack'[p][i].list = stack[p][i].list
                                            /\ lastFetchDate'[stack'[p][i].list] = clock'
        BY <3>5, <3>7, <3>8, <3>9, <3>10
      <3>13. \A i, j \in 2 .. Len(stack[p]) : stack[p][i].list = stack[p][j].list => i = j
        BY <2>0 DEF Recursion
      <3>14. \A i, j \in 2 .. Len(stack'[p]) :
               stack'[p][i].list = stack'[p][j].list => i = j
        BY <3>12, <3>13, Zenon
      <3> QED
        BY <3>12, <3>14 DEF Recursion
    <2>10. CASE SaveAnchor(p) \/ SaveAnchorFails(p)
      <3>1. PICK a \in Pending(p) : Settle(p, a)
        BY <2>10 DEF SaveAnchor, SaveAnchorFails
      <3>2. /\ stack[p] \in Seq(Frames) /\ stack[p] # << >> /\ Top(stack[p]) \in Frames
            /\ Len(stack[p]) = 1
        BY <2>10, <2>a DEF SaveAnchor, SaveAnchorFails, Idle, Shape
      <3> DEFINE f == [Top(stack[p]) EXCEPT !.found = @ \ {a}]
      <3>3. f \in Frames
        BY <3>2 DEF Frames
      <3>4. stack'[p] = SetTop(stack[p], f)
        BY <2>0, <3>1 DEF Settle, SetStack
      <3> HIDE DEF f
      <3>5. Len(stack'[p]) = 1
        <4>1. \A g \in Frames : Len(SetTop(stack[p], g)) = Len(stack[p])
          BY <3>2, SetTopLemma
        <4> QED
          BY <3>2, <3>3, <3>4, <4>1
      <3> QED
        BY <3>5, ShortRecursion
    <2> QED
      BY <1>1, <2>1, <2>2, <2>3, <2>4, <2>5, <2>6, <2>7, <2>8, <2>9, <2>10 DEF Refresh
  <1>2. ASSUME NEW p \in Pods, Launch(p) \/ Refresh(p) \/ Stop(p) PROVE RecursionInv'
    BY <1>1, <1>2, OtherRecursion DEF RecursionInv
  <1>3. CASE ClockMoves
    <2>1. \A p \in Pods : stack[p] = << >>
      BY <1>3 DEF ClockMoves, ShapeInv, Shape
    <2>2. 2 .. Len(<< >>) = {}
      BY EmptySeq
    <2> QED
      BY <1>3, <2>1, <2>2 DEF ClockMoves, RecursionInv, Recursion
  <1>4. CASE UNCHANGED vars
    BY <1>4 DEF vars, RecursionInv, Recursion, Entered
  <1> QED
    BY <1>2, <1>3, <1>4 DEF Next

\* The recursion of the eiDAS parser through lists that point at each other
\* never enters a list that is still being parsed, whatever the pointers are,
\* whatever fails and however many pods refresh the same documents.
THEOREM RecursionEnds == Spec => []NoReentry
  <1>1. RecursionInv => NoReentry
    BY DEF RecursionInv, Recursion, NoReentry
  <1> QED
    BY <1>1, ShapeInvariant, RecursionInit, RecursionNext, PTL DEF Spec
=============================================================================
